---- MODULE Spec2Model ----
(***************************************************************************)
(* A model of go3mf (MosaicManufacturing/go3mf): the resource graph and    *)
(* its ID allocation, the spec registry, the streaming decoder, the        *)
(* package reader and the encoder's extension bags.                        *)
(*                                                                         *)
(* The module holds several specifications over one set of variables; a    *)
(* specification leaves the variables of the other parts at their idle     *)
(* values.                                                                 *)
(*   SpecRes   Resources / Build and the STL importer                      *)
(*   SpecReg   the spec registry under concurrent callers                  *)
(*   SpecDec   the streaming decoder over one document                     *)
(*   SpecRd    the package reader over the documents of one package        *)
(*   SpecRT    a Model encoded and decoded again                           *)
(*   SpecBag   the calls on one extension bag                              *)
(*   SpecVal   Model.Validate with the materials validators                *)
(*   SpecFind  Model.FindResources, FindAsset, FindObject                  *)
(*   SpecMesh  MeshBuilder.AddVertex                                       *)
(*   SpecMf    modelFile.AddResource and FindResource                      *)
(*   SpecOa    the slice attributes decoded on one Object                  *)
(*   SpecStl   the steps of stl Decoder.Decode; SpecStlLive adds fairness  *)
(*   SpecColor strToSRGB over color texts                                  *)
(***************************************************************************)
EXTENDS Integers, Sequences, FiniteSets, TLC

VARIABLES
    \* ---- Resources / Build (core types) ----
    assets,     \* Resources.Assets: the assets' IDs, in collection order
    objects,    \* Resources.Objects: the objects' IDs, in collection order
    items,      \* Build.Items: the items' ObjectIDs, in order
    stlErr,     \* the error returned by the last stl Decoder.Decode ("nil" or an error)
    resOp,      \* the last operation on the Resources: <<name, arguments...>>
    \* ---- spec registry (package go3mf) ----
    specs,      \* the map specs: namespace -> spec.Spec (a function on the registered namespaces)
    specMu,     \* sync.RWMutex: [writer, pending, readers]
    pc,         \* per goroutine: its position in Register / loadExtension / loadValidator
    call,       \* per goroutine: the call it is in, [op, ns, spec]
    ret,        \* per goroutine: what its last call returned, or how Register ended
    local,      \* per goroutine: the locals ext, ok read from the map
    ncalls,     \* the calls started so far, by all goroutines
    pre,        \* per goroutine (history): the map as it was when its Register got the lock
    completed,  \* per goroutine (history): the Register calls completed when it read the map
    registered, \* (history) the <<namespace, spec>> of every completed Register
    \* ---- streaming decoder (modelFile.Decode and the slice extension's decoders) ----
    state,          \* the stack of enclosing element decoders (bottom first)
    names,          \* the stack of their element names
    currentDecoder, \* the decoder of the innermost open recognised element
    currentName,    \* its element name
    derr,           \* err of the decode loop: "nil", "EOF" or "syntax"
    warnings,       \* the diagnostics recorded so far, in order
    dAssets,        \* Resources.Assets of the document being decoded
    pending,        \* tokens of the input already produced by the tokenizer and not yet read
    xopen,          \* the tokenizer's open elements (their names, outermost first)
    hookLog,        \* (history) the decoder hooks invoked: <<hook, element ordinal>>
    lastStep,       \* (history) what the last loop iteration did
    nelems,         \* start tags produced so far (the ordinal of the last element)
    nfaults,        \* unknown or invalid attributes produced so far
    nunknown,       \* elements no decoder knows produced so far
    ntext,          \* character data tokens produced so far
    \* ---- package reader (Reader.Decode) ----
    pkg,            \* the package read: whether it has a root model, and what the
                    \* decode of the root and of each child document yields
    rdPc,           \* position in Reader.Decode
    rdI,            \* i of the loop of processNonRootModels (1-based)
    rdErr,          \* the error Reader.Decode returns
    prodAttCount,   \* len(r.Model.ProductionAttachments)
    mResources,     \* r.Model.Resources
    rWarnings,      \* r.Warnings
    decoded,        \* (history) the documents decoded, in order
    \* ---- round trip (MarshalModel, then UnmarshalModel) ----
    rtModel,        \* the Model m that is encoded
    rtPc,           \* position in the round trip
    rtXml,          \* the document MarshalModel wrote
    newModel,       \* the Model UnmarshalModel filled
    \* ---- extension bags (Extension, AnyAttr) ----
    bag,            \* an Extension: the elements of an entity's Any, in insertion order
    attrBag,        \* an AnyAttr: the entries of an entity's AnyAttr, in insertion order
    bagOp,          \* the last call on a bag: [op, target]
    bagRes,         \* what the last call wrote, returned and set
    \* ---- validation and lookup in a Model ----
    valModel,       \* the Model: Path, Attachments, Resources, Childs
    valOp,          \* the last call on the Model: [op, path, id]
    valErrs,        \* the error list the last Validate returned
    found,          \* what the last lookup returned
    \* ---- the mesh builder ----
    mb,             \* the MeshBuilder: CalculateConnectivity, Mesh.Vertices, vectorTree
    vcalls,         \* the AddVertex calls so far: [node, index, connectivity]
    \* ---- one modelFile and its resource index (package go3mf) ----
    mfPath,         \* modelFile.path: the path of the document that is decoded
    resourcesMap,   \* modelFile.resourcesMap: ID -> resource (a function on the IDs added)
    mfResources,    \* modelFile.resources: the resources added, in order
    modelResources, \* Reader.Model.Resources: the resources of the documents merged earlier
    mfOp,           \* the last call on the modelFile, with its arguments and results
    \* ---- the slice attributes of one Object (package slices) ----
    oAnyAttr,       \* o.AnyAttr: the attribute bag of the Object, in order
    oBefore,        \* the bag before the first slice attribute was decoded
    oaDecoded,      \* the attributes decoded so far, in order
    oaErrs,         \* the errors returned by the last objectAttrDecoder
    \* ---- the steps of one stl Decoder.Decode (package stl) ----
    stlReader,      \* d.r: how the reader ends, and the bytes it has not yet delivered
    stlBuf,         \* the bufio.Reader b: the bytes buffered and the pending error b.err
    stlPc,          \* where Decode is: "peek", "decode" or "returned"
    stlRet,         \* what Decode returned
    \* ---- one call of strToSRGB (package go3mf) ----
    colorIn,        \* the argument s: a sequence of characters
    colorRet        \* what strToSRGB returned: the color and the error, or none yet

resVars == <<assets, objects, items, stlErr, resOp>>
regVars == <<specs, specMu, pc, call, ret, local, ncalls, pre, completed, registered>>
decVars == <<state, names, currentDecoder, currentName, derr, warnings, dAssets,
             pending, xopen, hookLog, lastStep, nelems, nfaults, nunknown, ntext>>
rdVars == <<pkg, rdPc, rdI, rdErr, prodAttCount, mResources, rWarnings, decoded>>
rtVars == <<rtModel, rtPc, rtXml, newModel>>
bagVars == <<bag, attrBag, bagOp, bagRes>>
valVars == <<valModel, valOp, valErrs, found>>
meshVars == <<mb, vcalls>>
mfVars == <<mfPath, resourcesMap, mfResources, modelResources, mfOp>>
oaVars == <<oAnyAttr, oBefore, oaDecoded, oaErrs>>
stlVars == <<stlReader, stlBuf, stlPc, stlRet>>
colorVars == <<colorIn, colorRet>>
vars == <<resVars, regVars, decVars, rdVars, rtVars, bagVars, valVars, meshVars, mfVars, oaVars, stlVars, colorVars>>

\* the variables a specification leaves alone
notRes == <<regVars, decVars, rdVars, rtVars, bagVars, valVars, meshVars, mfVars, oaVars, stlVars, colorVars>>
notReg == <<resVars, decVars, rdVars, rtVars, bagVars, valVars, meshVars, mfVars, oaVars, stlVars, colorVars>>
notDec == <<resVars, regVars, rdVars, rtVars, bagVars, valVars, meshVars, mfVars, oaVars, stlVars, colorVars>>
notRd == <<resVars, regVars, decVars, rtVars, bagVars, valVars, meshVars, mfVars, oaVars, stlVars, colorVars>>
notRt == <<resVars, regVars, decVars, rdVars, bagVars, valVars, meshVars, mfVars, oaVars, stlVars, colorVars>>
notBag == <<resVars, regVars, decVars, rdVars, rtVars, valVars, meshVars, mfVars, oaVars, stlVars, colorVars>>
notVal == <<resVars, regVars, decVars, rdVars, rtVars, bagVars, meshVars, mfVars, oaVars, stlVars, colorVars>>
notMesh == <<resVars, regVars, decVars, rdVars, rtVars, bagVars, valVars, mfVars, oaVars, stlVars, colorVars>>
notMf == <<resVars, regVars, decVars, rdVars, rtVars, bagVars, valVars, meshVars, oaVars, stlVars, colorVars>>
notOa == <<resVars, regVars, decVars, rdVars, rtVars, bagVars, valVars, meshVars, mfVars, stlVars, colorVars>>
notStl == <<resVars, regVars, decVars, rdVars, rtVars, bagVars, valVars, meshVars, mfVars, oaVars, colorVars>>
notColor == <<resVars, regVars, decVars, rdVars, rtVars, bagVars, valVars, meshVars, mfVars, oaVars, stlVars>>

----------------------------------------------------------------------------
(* Bounds *)

\* the largest ID a resource is given by AddAsset / AddObject
MaxID == 5
\* the largest number of resources (assets + objects) in one Resources
MaxRes == 4
\* the goroutines that call into the registry, and the calls they make in all
NumProcs == 2
MaxCalls == 3
\* one document: its start tags, its unknown or invalid attributes, its
\* unknown elements, its text tokens
MaxElems == 6
MaxFaults == 1
MaxUnknown == 1
MaxText == 1
\* one package: its child documents, the resources and the diagnostics one
\* document yields
MaxChildren == 2
MaxDocResources == 2
MaxDocWarnings == 1
\* one Model of the round trip: the elements of one extension bag, its assets
MaxBag == 2
MaxAssets == 2
\* the asset under validation: the colors of a color group and the indices of
\* a composite; the values of an index; the slots of all combination entries
\* and the entries of a multi-properties asset, its property IDs, its blend
\* methods
MaxProps == 2
MaxIndex == 2
MaxSlots == 2
MaxMultis == 2
MaxPIDs == 2
MaxBlend == 2
\* a Model that is searched: the assets and the objects of its root document
MaxEntries == 2
\* the AddVertex calls on one builder
MaxVertexCalls == 4

\* the resource IDs of one document
MaxMfID == 2
\* the AddResource calls on one modelFile
MaxMfResources == 3

\* the slice attributes decoded on one Object
MaxObjectAttrs == 3
\* the entries of other extensions in the Object's bag
MaxOtherAttrs == 2

\* minimum size of a closed mesh in binary: the bytes isASCII peeks
sizeOfHeader == 284

\* the characters a color text is cut to
MaxColorLen == 10

----------------------------------------------------------------------------
(* Helpers *)

SeqToSet(s) == {s[i] : i \in 1..Len(s)}

\* the elements of a sequence are pairwise distinct
IsDistinctSeq(s) == \A i, j \in 1..Len(s) : i # j => s[i] # s[j]

\* sort.Ints: insertion of x into an ascending sequence
RECURSIVE InsertSorted(_, _)
InsertSorted(s, x) ==
    IF s = <<>> THEN <<x>>
    ELSE IF x <= Head(s) THEN <<x>> \o s
    ELSE <<Head(s)>> \o InsertSorted(Tail(s), x)

RECURSIVE SortInts(_)
SortInts(s) ==
    IF s = <<>> THEN <<>> ELSE InsertSorted(SortInts(Tail(s)), Head(s))

----------------------------------------------------------------------------
(* Resources.UnusedID *)

\* the loop `for i, id := range ids { if id != i { lowest = i } }`;
\* ids is 1-indexed here, the loop index i is the Go index (0-based)
RECURSIVE UnusedIDLoop(_, _, _)
UnusedIDLoop(ids, i, lowest) ==
    IF i >= Len(ids) THEN lowest
    ELSE UnusedIDLoop(ids, i + 1, IF ids[i + 1] # i THEN i ELSE lowest)

UnusedID(as, os) ==
    IF Len(as) = 0 /\ Len(os) = 0 THEN 1
    ELSE LET ids == SortInts(<<0>> \o as \o os)
             lowest == UnusedIDLoop(ids, 0, 0)
         \* uint32(lowest) is the identity here: lowest <= MaxID + 1 < 2^32
         IN  IF lowest = 0 THEN ids[Len(ids)] + 1 ELSE lowest

\* a scan that returns the last entry with the ID
RECURSIVE FindIndexLast(_, _, _)
FindIndexLast(s, id, i) ==
    IF i > Len(s) THEN 0
    ELSE IF FindIndexLast(s, id, i + 1) > 0 THEN FindIndexLast(s, id, i + 1)
    ELSE IF s[i] = id THEN i ELSE 0

\* Resources.FindObject / FindAsset: the first entry with the ID, 0 when none
RECURSIVE FindIndex(_, _, _)
FindIndex(s, id, i) ==
    IF i > Len(s) THEN 0
    ELSE IF s[i] = id THEN i ELSE FindIndex(s, id, i + 1)

FindObject(os, id) == FindIndex(os, id, 1)
FindAsset(as, id) == FindIndex(as, id, 1)

----------------------------------------------------------------------------
(* SpecRes: a Resources value built by its owner, and the STL importer *)

InitRes ==
    /\ assets = <<>>
    /\ objects = <<>>
    /\ items = <<>>
    /\ stlErr = "nil"
    /\ resOp = <<"new">>

IdleRes == InitRes
\* the owner appends an asset (Resources.Assets = append(...)); the IDs of a
\* document are positive and unique within its Resources
AddAsset ==
    \E id \in 1..MaxID :
        /\ Len(assets) + Len(objects) < MaxRes
        /\ id \notin SeqToSet(assets) \cup SeqToSet(objects)
        /\ assets' = Append(assets, id)
        /\ resOp' = <<"asset", id>>
        /\ UNCHANGED <<objects, items, stlErr>>
        /\ UNCHANGED notRes

\* the owner appends an object with a positive ID not in use
AddObject ==
    \E id \in 1..MaxID :
        /\ Len(assets) + Len(objects) < MaxRes
        /\ id \notin SeqToSet(assets) \cup SeqToSet(objects)
        /\ objects' = Append(objects, id)
        /\ resOp' = <<"object", id>>
        /\ UNCHANGED <<assets, items, stlErr>>
        /\ UNCHANGED notRes

\* a Decode that appends the object and the item although the decoder failed
StlDecodeAppendsOnError ==
    \E outcome \in {"header", "mesh", "ok"} :
        /\ Len(assets) + Len(objects) < MaxRes
        /\ objects' = Append(objects, UnusedID(assets, objects))
        /\ items' = Append(items, UnusedID(assets, objects))
        /\ stlErr' = IF outcome = "ok" THEN "nil" ELSE outcome
        /\ resOp' = <<"stl", UnusedID(assets, objects)>>
        /\ UNCHANGED assets
        /\ UNCHANGED notRes

\* stl Decoder.DecodeContext: isASCII fails, or the mesh decoder fails, or the
\* new object and its build item are appended
StlDecode ==
    \E outcome \in {"header", "mesh", "ok"} :
        /\ Len(assets) + Len(objects) < MaxRes
        /\ IF outcome = "ok"
           THEN LET id == UnusedID(assets, objects)
                IN  /\ objects' = Append(objects, id)
                    /\ items' = Append(items, id)
                    /\ stlErr' = "nil"
                    /\ resOp' = <<"stl", id>>
           ELSE /\ stlErr' = outcome
                /\ resOp' = <<"stlfail", outcome>>
                /\ UNCHANGED <<objects, items>>
        /\ UNCHANGED assets
        /\ UNCHANGED notRes

NextRes == AddAsset \/ AddObject \/ StlDecode

----------------------------------------------------------------------------
(* The spec registry: Register, loadExtension, loadValidator *)

Procs == 1..NumProcs
Namespaces == {"nsA", "nsB"}
\* spec.Spec values: one that also implements spec.ValidateSpec, one that does
\* not, and the nil interface value
ValidatingSpec == "validating"
PlainSpec == "basic"
NilSpec == "nil"
SpecValues == {ValidatingSpec, PlainSpec, NilSpec}
NoProc == 0
NoCall == [op |-> "none", ns |-> "", spec |-> NilSpec]
NoRet == [kind |-> "none"]

\* ext.(spec.ValidateSpec) in its comma-ok form
IsValidateSpec(ext) == ext = ValidatingSpec

InitReg ==
    /\ specs = <<>>
    /\ specMu = [writer |-> NoProc, pending |-> NoProc, readers |-> {}]
    /\ pc = [p \in Procs |-> "idle"]
    /\ call = [p \in Procs |-> NoCall]
    /\ ret = [p \in Procs |-> NoRet]
    /\ local = [p \in Procs |-> [ext |-> NilSpec, ok |-> FALSE]]
    /\ ncalls = 0
    /\ pre = [p \in Procs |-> <<>>]
    /\ completed = [p \in Procs |-> {}]
    /\ registered = {}

IdleReg == InitReg

\* sync.RWMutex.Lock, first half: the writer announces itself; from now on no
\* new reader gets the lock
LockAnnounce(p) ==
    /\ specMu.writer = NoProc
    /\ specMu.pending = NoProc
    /\ specMu' = [specMu EXCEPT !.pending = p]

\* sync.RWMutex.Lock, second half: the announced writer gets the lock once the
\* readers have left
LockAcquire(p) ==
    /\ specMu.pending = p
    /\ specMu.readers = {}
    /\ specMu' = [specMu EXCEPT !.pending = NoProc, !.writer = p]

Unlock(p) == specMu' = [specMu EXCEPT !.writer = NoProc]

\* RLock that does not wait for the writer
RLockNoWait(p) == specMu' = [specMu EXCEPT !.readers = @ \cup {p}]

\* sync.RWMutex.RLock: blocks while a writer holds the lock or has announced itself
RLock(p) ==
    /\ specMu.writer = NoProc
    /\ specMu.pending = NoProc
    /\ specMu' = [specMu EXCEPT !.readers = @ \cup {p}]

RUnlock(p) == specMu' = [specMu EXCEPT !.readers = @ \ {p}]

\* specs[namespace] = spec
MapStore(m, ns, sp) == [n \in (DOMAIN m) \cup {ns} |-> IF n = ns THEN sp ELSE m[n]]

\* ext, ok := specs[ns]
MapLoad(m, ns) ==
    IF ns \in DOMAIN m THEN [ext |-> m[ns], ok |-> TRUE]
    ELSE [ext |-> NilSpec, ok |-> FALSE]

\* a goroutine calls Register(ns, sp)
CallRegister(p) ==
    \E ns \in Namespaces, sp \in SpecValues :
        /\ pc[p] = "idle"
        /\ ncalls < MaxCalls
        /\ ncalls' = ncalls + 1
        /\ call' = [call EXCEPT ![p] = [op |-> "Register", ns |-> ns, spec |-> sp]]
        /\ pc' = [pc EXCEPT ![p] = "reg_lock"]
        /\ ret' = [ret EXCEPT ![p] = NoRet]
        /\ UNCHANGED <<specs, specMu, local, pre, completed, registered>>
        /\ UNCHANGED notReg

\* Register: specMu.Lock()
RegisterLock(p) ==
    /\ \/ /\ pc[p] = "reg_lock"
          /\ LockAnnounce(p)
          /\ pc' = [pc EXCEPT ![p] = "reg_wait"]
          /\ UNCHANGED pre
       \/ /\ pc[p] = "reg_wait"
          /\ LockAcquire(p)
          /\ pc' = [pc EXCEPT ![p] = "reg_store"]
          /\ pre' = [pre EXCEPT ![p] = specs]
    /\ UNCHANGED <<specs, call, ret, local, ncalls, completed, registered>>
    /\ UNCHANGED notReg

\* Register: specs[namespace] = spec
RegisterStore(p) ==
    /\ pc[p] = "reg_store"
    /\ specs' = MapStore(specs, call[p].ns, call[p].spec)
    /\ pc' = [pc EXCEPT ![p] = "reg_unlock"]
    /\ UNCHANGED <<specMu, call, ret, local, ncalls, pre, completed, registered>>
    /\ UNCHANGED notReg

\* Register: the deferred specMu.Unlock(), and the return
RegisterUnlock(p) ==
    /\ pc[p] = "reg_unlock"
    /\ Unlock(p)
    /\ pc' = [pc EXCEPT ![p] = "idle"]
    /\ ret' = [ret EXCEPT ![p] = [kind |-> "returned"]]
    /\ registered' = registered \cup {<<call[p].ns, call[p].spec>>}
    /\ UNCHANGED <<specs, call, local, ncalls, pre, completed>>
    /\ UNCHANGED notReg

\* a goroutine calls loadExtension(ns) or loadValidator(ns)
CallLoad(p) ==
    \E op \in {"loadExtension", "loadValidator"}, ns \in Namespaces :
        /\ pc[p] = "idle"
        /\ ncalls < MaxCalls
        /\ ncalls' = ncalls + 1
        /\ call' = [call EXCEPT ![p] = [op |-> op, ns |-> ns, spec |-> NilSpec]]
        /\ pc' = [pc EXCEPT ![p] = "load_rlock"]
        /\ ret' = [ret EXCEPT ![p] = NoRet]
        /\ local' = [local EXCEPT ![p] = [ext |-> NilSpec, ok |-> FALSE]]
        /\ UNCHANGED <<specs, specMu, pre, completed, registered>>
        /\ UNCHANGED notReg

\* loadExtension / loadValidator: specMu.RLock()
LoadRLock(p) ==
    /\ pc[p] = "load_rlock"
    /\ RLock(p)
    /\ pc' = [pc EXCEPT ![p] = "load_read"]
    /\ UNCHANGED <<specs, call, ret, local, ncalls, pre, completed, registered>>
    /\ UNCHANGED notReg

\* loadExtension / loadValidator: ext, ok := specs[ns]
LoadRead(p) ==
    /\ pc[p] = "load_read"
    /\ local' = [local EXCEPT ![p] = MapLoad(specs, call[p].ns)]
    /\ completed' = [completed EXCEPT ![p] = registered]
    /\ pc' = [pc EXCEPT ![p] = "load_runlock"]
    /\ UNCHANGED <<specs, specMu, call, ret, ncalls, pre, registered>>
    /\ UNCHANGED notReg

\* what loadExtension returns from its locals
LoadExtensionResult(l) == [kind |-> "lookup", ext |-> l.ext, ok |-> l.ok]

\* what loadValidator returns from its locals
LoadValidatorResult(l) ==
    IF l.ok
    THEN [kind |-> "lookup",
          ext |-> IF IsValidateSpec(l.ext) THEN l.ext ELSE NilSpec,
          ok |-> IsValidateSpec(l.ext)]
    ELSE [kind |-> "lookup", ext |-> NilSpec, ok |-> FALSE]

\* loadExtension / loadValidator: specMu.RUnlock(), and the return
LoadRUnlock(p) ==
    /\ pc[p] = "load_runlock"
    /\ RUnlock(p)
    /\ ret' = [ret EXCEPT ![p] = IF call[p].op = "loadExtension"
                                 THEN LoadExtensionResult(local[p])
                                 ELSE LoadValidatorResult(local[p])]
    /\ pc' = [pc EXCEPT ![p] = "idle"]
    /\ UNCHANGED <<specs, call, local, ncalls, pre, completed, registered>>
    /\ UNCHANGED notReg

NextReg ==
    \E p \in Procs :
        \/ CallRegister(p)
        \/ RegisterLock(p)
        \/ RegisterStore(p)
        \/ RegisterUnlock(p)
        \/ CallLoad(p)
        \/ LoadRLock(p)
        \/ LoadRead(p)
        \/ LoadRUnlock(p)

----------------------------------------------------------------------------
(* The streaming decoder: documents, attribute values, element decoders *)

\* namespaces of element and attribute names: the core namespace, the slice
\* extension's Namespace, a namespace no extension is registered for, and none
nsCoreSpec == "core"
Namespace == "slice"
nsUnknown == "unregistered"
nsNone == ""

XmlName(space, localName) == [Space |-> space, Local |-> localName]
NoName == XmlName(nsNone, "")

\* the attribute texts of a document: two numbers, a non-numeric text, a
\* number past 32 bits and a number past the float32 range
AttrValues == {"1", "2", "x", "4294967296", "1e39"}

\* strconv.ParseUint(s, 10, 32): the value and whether err != nil. On a
\* syntax error the value is 0, on a range error the largest uint32.
ParseUint(s) ==
    CASE s \in {"1", "2"} -> [val |-> s, err |-> FALSE]
      [] s = "4294967296" -> [val |-> "4294967295", err |-> TRUE]
      [] OTHER -> [val |-> "0", err |-> TRUE]

\* strconv.ParseFloat(s, 32): on a syntax error the value is 0, on a range
\* error the infinity of the sign.
ParseFloat(s) ==
    CASE s \in {"1", "2", "4294967296"} -> [val |-> s, err |-> FALSE]
      [] s = "1e39" -> [val |-> "+Inf", err |-> TRUE]
      [] OTHER -> [val |-> "0", err |-> TRUE]

\* specerr.NewParseAttrError and specerr.Append / specerr.WrapIndex: a
\* diagnostic names the attribute, says whether it is required, and carries
\* the path of <<kind, index, element>> segments, outermost first
NewParseAttrError(name, required) ==
    [name |-> name, required |-> required, path |-> <<>>]

AppendIf(errs, failed, e) == IF failed THEN Append(errs, e) ELSE errs

WrapIndex(errs, kind, index, eid) ==
    [j \in 1..Len(errs) |->
        [errs[j] EXCEPT !.path = <<[kind |-> kind, index |-> index, eid |-> eid]>> \o @]]

\* the zero values of the decoded entities; eid is the ordinal of the element
\* an entity was decoded from
NewSliceStack(eid) ==
    [eid |-> eid, ID |-> "0", BottomZ |-> "0", Slices |-> <<>>, Refs |-> <<>>]
NewSlice(eid) == [eid |-> eid, TopZ |-> "0", Vertices |-> <<>>, Polygons |-> <<>>]
NewSliceRef(eid) == [eid |-> eid, SliceStackID |-> "0", Path |-> ""]
NewPoint2D(eid) == [eid |-> eid, x |-> "0", y |-> "0"]
NewPolygon(eid) == [eid |-> eid, StartV |-> "0", Segments |-> <<>>]
NewSegment(eid) ==
    [eid |-> eid, V2 |-> "0", PID |-> "0", P1 |-> "0", P2 |-> "0",
     hasP1 |-> FALSE, hasP2 |-> FALSE]

\* ---- the attribute loops of the Start hooks: the entity and the errors ----

RECURSIVE SliceStackAttrs(_, _, _, _)
SliceStackAttrs(attrs, i, resource, errs) ==
    IF i > Len(attrs) THEN [ent |-> resource, errs |-> errs]
    ELSE LET a == attrs[i] IN
         CASE a.Name.Local = "id" ->
                LET r == ParseUint(a.Value) IN
                SliceStackAttrs(attrs, i + 1, [resource EXCEPT !.ID = r.val],
                    AppendIf(errs, r.err, NewParseAttrError(a.Name.Local, TRUE)))
           [] a.Name.Local = "zbottom" ->
                LET r == ParseFloat(a.Value) IN
                SliceStackAttrs(attrs, i + 1, [resource EXCEPT !.BottomZ = r.val],
                    AppendIf(errs, r.err, NewParseAttrError(a.Name.Local, FALSE)))
           [] OTHER -> SliceStackAttrs(attrs, i + 1, resource, errs)

RECURSIVE SliceRefAttrs(_, _, _, _)
SliceRefAttrs(attrs, i, ref, errs) ==
    IF i > Len(attrs) THEN [ent |-> ref, errs |-> errs]
    ELSE LET a == attrs[i] IN
         CASE a.Name.Local = "slicestackid" ->
                LET r == ParseUint(a.Value) IN
                SliceRefAttrs(attrs, i + 1, [ref EXCEPT !.SliceStackID = r.val],
                    AppendIf(errs, r.err, NewParseAttrError(a.Name.Local, TRUE)))
           [] a.Name.Local = "slicepath" ->
                SliceRefAttrs(attrs, i + 1, [ref EXCEPT !.Path = a.Value], errs)
           [] OTHER -> SliceRefAttrs(attrs, i + 1, ref, errs)

\* the loop stops at the first ztop
RECURSIVE SliceAttrs(_, _, _, _)
SliceAttrs(attrs, i, slice, errs) ==
    IF i > Len(attrs) THEN [ent |-> slice, errs |-> errs]
    ELSE LET a == attrs[i] IN
         IF a.Name.Local = "ztop"
         THEN LET r == ParseFloat(a.Value) IN
              [ent |-> [slice EXCEPT !.TopZ = r.val],
               errs |-> AppendIf(errs, r.err, NewParseAttrError(a.Name.Local, TRUE))]
         ELSE SliceAttrs(attrs, i + 1, slice, errs)

\* every attribute is parsed before its name is looked at
RECURSIVE VertexAttrs(_, _, _, _)
VertexAttrs(attrs, i, p, errs) ==
    IF i > Len(attrs) THEN [ent |-> p, errs |-> errs]
    ELSE LET a == attrs[i]
             r == ParseFloat(a.Value)
             errs1 == AppendIf(errs, r.err, NewParseAttrError(a.Name.Local, TRUE))
         IN  CASE a.Name.Local = "x" ->
                    VertexAttrs(attrs, i + 1, [p EXCEPT !.x = r.val], errs1)
               [] a.Name.Local = "y" ->
                    VertexAttrs(attrs, i + 1, [p EXCEPT !.y = r.val], errs1)
               [] OTHER -> VertexAttrs(attrs, i + 1, p, errs1)

\* the loop stops at the first startv
RECURSIVE PolygonAttrs(_, _, _, _)
PolygonAttrs(attrs, i, polygon, errs) ==
    IF i > Len(attrs) THEN [ent |-> polygon, errs |-> errs]
    ELSE LET a == attrs[i] IN
         IF a.Name.Local = "startv"
         THEN LET r == ParseUint(a.Value) IN
              [ent |-> [polygon EXCEPT !.StartV = r.val],
               errs |-> AppendIf(errs, r.err, NewParseAttrError(a.Name.Local, TRUE))]
         ELSE PolygonAttrs(attrs, i + 1, polygon, errs)

\* every attribute is parsed before its name is looked at
RECURSIVE SegmentAttrs(_, _, _, _)
SegmentAttrs(attrs, i, segment, errs) ==
    IF i > Len(attrs) THEN [ent |-> segment, errs |-> errs]
    ELSE LET a == attrs[i]
             r == ParseUint(a.Value)
             s1 == CASE a.Name.Local = "v2" -> [segment EXCEPT !.V2 = r.val]
                     [] a.Name.Local = "pid" -> [segment EXCEPT !.PID = r.val]
                     [] a.Name.Local = "p1" ->
                            [segment EXCEPT !.P1 = r.val, !.hasP1 = TRUE]
                     [] a.Name.Local = "p2" ->
                            [segment EXCEPT !.P2 = r.val, !.hasP2 = TRUE]
                     [] OTHER -> segment
             s2 == IF s1.hasP1 /\ ~s1.hasP2 THEN [s1 EXCEPT !.P2 = s1.P1] ELSE s1
             required == a.Name.Local = "v2"
         IN  SegmentAttrs(attrs, i + 1, s2,
                 AppendIf(errs, r.err, NewParseAttrError(a.Name.Local, required)))

\* the entity and the errors a decoder of the kind gets from an attribute list
AttrsResult(kind, attrs, eid) ==
    CASE kind = "slicestack" -> SliceStackAttrs(attrs, 1, NewSliceStack(eid), <<>>)
      [] kind = "sliceref" -> SliceRefAttrs(attrs, 1, NewSliceRef(eid), <<>>)
      [] kind = "slice" -> SliceAttrs(attrs, 1, NewSlice(eid), <<>>)
      [] kind = "vertex" -> VertexAttrs(attrs, 1, NewPoint2D(eid), <<>>)
      [] kind = "polygon" -> PolygonAttrs(attrs, 1, NewPolygon(eid), <<>>)
      [] kind = "segment" -> SegmentAttrs(attrs, 1, NewSegment(eid), <<>>)
      [] OTHER -> [ent |-> [eid |-> eid], errs |-> <<>>]

\* ---- the element decoders on the stack ----

\* a decoder on the stack: its kind and the entity it is building
Decoder(kind, ent) == [kind |-> kind, ent |-> ent]
topLevelDecoder == Decoder("top", [eid |-> 0])
NoDecoder == "nil"

\* Spec.CreateElementDecoder of the slice extension, for a child of resources
CreateElementDecoder(name) == IF name = "slicestack" THEN "slicestack" ELSE NoDecoder

\* Child of the model decoder and of the resources decoder: the resources
\* element of the core namespace; an element of a registered extension's
\* namespace is offered to that extension
modelChild(name) ==
    IF name = XmlName(nsCoreSpec, "resources") THEN "resources" ELSE NoDecoder
resourcesChild(name) ==
    IF name.Space = Namespace THEN CreateElementDecoder(name.Local) ELSE NoDecoder

\* Child of each decoder: the kind of the child decoder, or NoDecoder
Child(d, name) ==
    CASE d.kind = "top" ->
            IF name = XmlName(nsCoreSpec, "model") THEN "model" ELSE NoDecoder
      [] d.kind = "model" -> modelChild(name)
      [] d.kind = "resources" -> resourcesChild(name)
      [] d.kind = "slicestack" ->
            IF name.Space = Namespace /\ name.Local = "slice" THEN "slice"
            ELSE IF name.Space = Namespace /\ name.Local = "sliceref" THEN "sliceref"
            ELSE NoDecoder
      [] d.kind = "slice" ->
            IF name.Space = Namespace /\ name.Local = "vertices" THEN "vertices"
            ELSE IF name.Space = Namespace /\ name.Local = "polygon" THEN "polygon"
            ELSE NoDecoder
      [] d.kind = "vertices" ->
            IF name.Space = Namespace /\ name.Local = "vertex" THEN "vertex"
            ELSE NoDecoder
      [] d.kind = "polygon" ->
            IF name.Space = Namespace /\ name.Local = "segment" THEN "segment"
            ELSE NoDecoder
      [] OTHER -> NoDecoder

\* the segment a polygon keeps: the Start hook's locals are dropped
SegmentOf(s) == [eid |-> s.eid, V2 |-> s.V2, PID |-> s.PID, P1 |-> s.P1, P2 |-> s.P2]

\* the index sliceRefDecoder.Start gives the reference it has just appended
SliceRefIndexLen(refs) == Len(refs)
SliceRefIndex(refs) == Len(refs) - 1

\* the Start hooks. st is the stack with the parent on top; the result is the
\* new decoder, the stack with the entities the hook wrote through its
\* pointers, and the errors the hook returns.
StartHook(kind, attrs, eid, st, assetsNow) ==
    LET n == Len(st)
        r == AttrsResult(kind, attrs, eid)
        same == [cur |-> Decoder(kind, [eid |-> eid]), state |-> st, errs |-> <<>>]
    IN  CASE kind = "slicestack" ->
                [cur |-> Decoder(kind, r.ent), state |-> st,
                 errs |-> WrapIndex(r.errs, "SliceStack", Len(assetsNow), eid)]
          [] kind = "sliceref" ->
                LET refs == Append(st[n].ent.Refs, r.ent) IN
                [cur |-> Decoder(kind, [eid |-> eid]),
                 state |-> [st EXCEPT ![n].ent.Refs = refs],
                 errs |-> WrapIndex(r.errs, "SliceRef", SliceRefIndex(refs), eid)]
          [] kind = "slice" ->
                [cur |-> Decoder(kind, r.ent), state |-> st,
                 errs |-> WrapIndex(r.errs, "Slice", Len(st[n].ent.Slices), eid)]
          [] kind = "vertex" ->
                LET vs == Append(st[n - 1].ent.Vertices, r.ent) IN
                [cur |-> Decoder(kind, [eid |-> eid]),
                 state |-> [st EXCEPT ![n - 1].ent.Vertices = vs],
                 errs |-> WrapIndex(r.errs, "Point2D", Len(vs) - 1, eid)]
          [] kind = "polygon" ->
                LET polygonIndex == Len(st[n].ent.Polygons) IN
                [cur |-> Decoder(kind, [eid |-> eid]),
                 state |-> [st EXCEPT ![n].ent.Polygons = Append(@, r.ent)],
                 errs |-> WrapIndex(r.errs, "Polygon", polygonIndex, eid)]
          [] kind = "segment" ->
                LET last == Len(st[n - 1].ent.Polygons)
                    segs == Append(st[n - 1].ent.Polygons[last].Segments,
                                   SegmentOf(r.ent))
                IN  [cur |-> Decoder(kind, [eid |-> eid]),
                     state |-> [st EXCEPT ![n - 1].ent.Polygons[last].Segments = segs],
                     errs |-> WrapIndex(r.errs, "Segment", Len(segs) - 1, eid)]
          [] OTHER -> same

\* the End hooks: st is the stack with the parent on top
EndHook(d, st, assetsNow) ==
    CASE d.kind = "slicestack" ->
            [state |-> st, assets |-> Append(assetsNow, d.ent)]
      [] d.kind = "slice" ->
            [state |-> [st EXCEPT ![Len(st)].ent.Slices = Append(@, d.ent)],
             assets |-> assetsNow]
      [] OTHER -> [state |-> st, assets |-> assetsNow]

\* Wrap of the decoder at st[i]
Wrap(errs, st, i, assetsNow) ==
    CASE st[i].kind = "slicestack" ->
            WrapIndex(errs, "SliceStack", Len(assetsNow), st[i].ent.eid)
      [] st[i].kind = "slice" ->
            WrapIndex(errs, "Slice", Len(st[i - 1].ent.Slices), st[i].ent.eid)
      [] st[i].kind = "polygon" ->
            LET index == Len(st[i - 1].ent.Polygons) - 1 IN
            WrapIndex(errs, "Polygon", index, st[i - 1].ent.Polygons[index + 1].eid)
      [] OTHER -> errs

\* the errors of a Start hook are wrapped by every enclosing decoder, the
\* innermost first
RECURSIVE WrapParents(_, _, _, _)
WrapParents(errs, st, i, assetsNow) ==
    IF i = 0 THEN errs
    ELSE WrapParents(Wrap(errs, st, i, assetsNow), st, i - 1, assetsNow)

\* the errors a Start hook returns are wrapped by the decoders that enclose
\* it and recorded as diagnostics; the decode goes on
StartErrors(errs, st, assetsNow) == WrapParents(errs, st, Len(st), assetsNow)

\* modelFile.AddWarning, for the errors of one hook
AddWarning(ws, errs) == ws \o errs

\* xml.Decoder.Skip over the tokens that follow a start tag: the number of
\* tokens it reads up to the matching end tag, 0 when the input ends first
RECURSIVE Skip(_, _, _)
Skip(toks, i, depth) ==
    IF i > Len(toks) THEN 0
    ELSE IF toks[i].t = "start" THEN Skip(toks, i + 1, depth + 1)
    ELSE IF toks[i].t = "end"
         THEN IF depth = 0 THEN i ELSE Skip(toks, i + 1, depth - 1)
    ELSE Skip(toks, i + 1, depth)

\* x.Skip() reading one token only
SkipOneToken(toks) == 1
\* x.Skip() on the tokens that follow the start tag just read
SkipTokens(toks) == Skip(toks, 1, 0)

\* ---- the input: tokens of a well-formed document, produced on demand ----

StartElement(name, attrs) == [t |-> "start", Name |-> name, Attr |-> attrs]
EndElement(name) == [t |-> "end", Name |-> name, Attr |-> <<>>]
CharData == [t |-> "text", Name |-> NoName, Attr |-> <<>>]

XmlAttr(space, localName, value) == [Name |-> XmlName(space, localName), Value |-> value]

\* the attribute names an element of the kind defines
KnownAttrs(kind) ==
    CASE kind = "slicestack" -> {"id", "zbottom"}
      [] kind = "sliceref" -> {"slicestackid", "slicepath"}
      [] kind = "slice" -> {"ztop"}
      [] kind = "vertex" -> {"x", "y"}
      [] kind = "polygon" -> {"startv"}
      [] kind = "segment" -> {"v2", "pid", "p1", "p2"}
      [] OTHER -> {}

\* the attributes whose text is not parsed as a number, and those whose
\* text is a decimal fraction rather than an unsigned integer of 32 bits
TextAttrs == {"slicepath"}
FloatAttrs == {"zbottom", "ztop", "x", "y"}

\* an attribute is unknown to its element when its name is in a namespace or
\* is none of the element's; its value is invalid when it does not parse
IsUnknownAttr(kind, a) == a.Name.Space # nsNone \/ a.Name.Local \notin KnownAttrs(kind)
IsInvalidAttr(kind, a) ==
    /\ ~IsUnknownAttr(kind, a)
    /\ a.Name.Local \notin TextAttrs
    /\ a.Value \notin (IF a.Name.Local \in FloatAttrs
                       THEN {"1", "2", "4294967296"} ELSE {"1", "2"})

\* the attribute list of a start tag whose attributes are all known and valid
ValidAttrLists(kind) ==
    CASE kind = "slicestack" ->
            {<<XmlAttr(nsNone, "id", "1"), XmlAttr(nsNone, "zbottom", "1")>>,
             <<XmlAttr(nsNone, "id", "2")>>}
      [] kind = "sliceref" ->
            {<<XmlAttr(nsNone, "slicestackid", "1"), XmlAttr(nsNone, "slicepath", "x")>>}
      [] kind = "slice" -> {<<XmlAttr(nsNone, "ztop", "1")>>}
      [] kind = "vertex" -> {<<XmlAttr(nsNone, "x", "1"), XmlAttr(nsNone, "y", "2")>>}
      [] kind = "polygon" -> {<<XmlAttr(nsNone, "startv", "1")>>}
      [] kind = "segment" -> {<<XmlAttr(nsNone, "v2", "1"), XmlAttr(nsNone, "p1", "2")>>}
      [] OTHER -> {<<>>}

\* the attributes no element defines: a name of no element, with a numeric
\* and a non-numeric text, and a name in an unregistered namespace
UnknownAttrs(kind) ==
    {XmlAttr(nsNone, "foo", "1"), XmlAttr(nsNone, "foo", "x")}
        \cup {XmlAttr(nsUnknown, l, "x") : l \in KnownAttrs(kind)}

\* a valid list with one value made invalid, or with one unknown attribute
\* before or after it
FaultyAttrLists(kind) ==
    UNION {
        {[as EXCEPT ![i].Value = v] :
            i \in {j \in 1..Len(as) : as[j].Name.Local \notin TextAttrs},
            v \in AttrValues \ {"1", "2"}}
        \cup {<<u>> \o as : u \in UnknownAttrs(kind)}
        \cup {as \o <<u>> : u \in UnknownAttrs(kind)}
      : as \in ValidAttrLists(kind)}

Faults(kind, attrs) ==
    Cardinality({i \in 1..Len(attrs) :
        IsUnknownAttr(kind, attrs[i]) \/ IsInvalidAttr(kind, attrs[i])})

\* the attribute lists of a start tag, while the document may still hold an
\* unknown or invalid part
AttrLists(kind, budget) ==
    IF KnownAttrs(kind) = {} THEN {<<>>}
    ELSE ValidAttrLists(kind) \cup (IF budget > 0 THEN FaultyAttrLists(kind) ELSE {})

\* the element names a document may hold below the current element: the
\* children its decoder knows, and names it does not know
ElementNames ==
    {XmlName(nsCoreSpec, "model"), XmlName(nsCoreSpec, "resources"),
     XmlName(Namespace, "slicestack"), XmlName(Namespace, "slice"),
     XmlName(Namespace, "sliceref"), XmlName(Namespace, "vertices"),
     XmlName(Namespace, "vertex"), XmlName(Namespace, "polygon"),
     XmlName(Namespace, "segment")}
ForeignNames == {XmlName(nsUnknown, "ext"), XmlName(nsUnknown, "slice")}
MisplacedNames == {XmlName(Namespace, "vertex")}

\* what an element the decoder does not know may hold: nothing, text, an
\* element of its own name, an element some decoder knows with an attribute
\* that does not parse; or the input ends inside it
SkipBodies(name) ==
    {<<EndElement(name)>>,
     <<CharData, EndElement(name)>>,
     <<StartElement(name, <<>>), CharData, EndElement(name), EndElement(name)>>,
     <<StartElement(XmlName(Namespace, "slice"), <<XmlAttr(nsNone, "ztop", "x")>>),
       EndElement(XmlName(Namespace, "slice")), EndElement(name)>>,
     <<CharData>>}

\* the start tags the tokenizer may produce next, each with the number of
\* unknown or invalid attributes and of unknown elements it adds to the document
NewStartTokens ==
    IF nelems >= MaxElems \/ (xopen = <<>> /\ nelems > 0) THEN {}
    ELSE LET budget == MaxFaults - nfaults
             known == {nm \in ElementNames : Child(currentDecoder, nm) # NoDecoder}
             other == IF nunknown < MaxUnknown
                      THEN (ForeignNames \cup MisplacedNames) \ known ELSE {}
         IN  UNION {{[tok |-> StartElement(nm, as), unknown |-> 0,
                      faults |-> Faults(Child(currentDecoder, nm), as)] :
                        as \in AttrLists(Child(currentDecoder, nm), budget)} :
                    nm \in known}
             \cup {[tok |-> StartElement(nm, <<>>), unknown |-> 1, faults |-> 0] :
                        nm \in other}

\* ---- modelFile.Decode: one action per case of the token loop ----

NoStep == [op |-> "none", name |-> NoName, kind |-> NoDecoder, attrs |-> <<>>,
           eid |-> 0, res |-> AttrsResult(NoDecoder, <<>>, 0)]

InitDec ==
    /\ state = <<>>
    /\ names = <<>>
    /\ currentDecoder = topLevelDecoder
    /\ currentName = NoName
    /\ derr = "nil"
    /\ warnings = <<>>
    /\ dAssets = <<>>
    /\ pending = <<>>
    /\ xopen = <<>>
    /\ hookLog = <<>>
    /\ lastStep = NoStep
    /\ nelems = 0
    /\ nfaults = 0
    /\ nunknown = 0
    /\ ntext = 0

IdleDec == InitDec

\* the start tag Token returns next: the first token already produced, or a
\* new one
StartTokens ==
    IF pending = <<>> THEN NewStartTokens
    ELSE IF pending[1].t = "start"
         THEN {[tok |-> pending[1], unknown |-> 0, faults |-> 0]}
    ELSE {}

\* case xml.StartElement with a child decoder: push, then the Start hook; the
\* errors it returns are wrapped by the enclosing decoders and recorded
OpenElement(tok, kind, eid, rest, opened) ==
    LET h == StartHook(kind, tok.Attr, eid, Append(state, currentDecoder), dAssets)
    IN  /\ state' = h.state
        /\ names' = Append(names, currentName)
        /\ currentName' = tok.Name
        /\ currentDecoder' = h.cur
        /\ warnings' = AddWarning(warnings, StartErrors(h.errs, h.state, dAssets))
        /\ hookLog' = Append(hookLog, <<"start", eid>>)
        /\ pending' = rest
        /\ xopen' = opened
        /\ lastStep' = [op |-> "start", name |-> tok.Name, kind |-> kind,
                        attrs |-> tok.Attr, eid |-> eid,
                        res |-> AttrsResult(kind, tok.Attr, eid)]
        /\ UNCHANGED <<derr, dAssets>>

\* case xml.StartElement without a child decoder: x.Skip() reads the input up
\* to the element's end tag; its error ends the loop
SkipElement(tok, eid, body) ==
    LET n == SkipTokens(body) IN
    /\ pending' = IF n = 0 THEN <<>> ELSE SubSeq(body, n + 1, Len(body))
    /\ derr' = IF n = 0 THEN "syntax" ELSE derr
    /\ lastStep' = [NoStep EXCEPT !.op = IF n = 0 THEN "skipfail" ELSE "skip",
                                  !.name = tok.Name, !.eid = eid]
    /\ UNCHANGED <<state, names, currentDecoder, currentName, warnings, dAssets,
                   xopen, hookLog>>

DecodeStartElement ==
    /\ derr = "nil"
    /\ \E st \in StartTokens :
        LET tok == st.tok
            eid == nelems + 1
            kind == Child(currentDecoder, tok.Name)
            fresh == pending = <<>>
        IN  /\ nelems' = eid
            /\ nfaults' = nfaults + st.faults
            /\ nunknown' = nunknown + st.unknown
            /\ ntext' = ntext
            /\ IF kind # NoDecoder
               THEN OpenElement(tok, kind, eid,
                        IF fresh THEN <<>> ELSE Tail(pending),
                        IF fresh THEN Append(xopen, tok.Name) ELSE xopen)
               ELSE IF fresh
                    THEN \E body \in SkipBodies(tok.Name) : SkipElement(tok, eid, body)
                    ELSE SkipElement(tok, eid, Tail(pending))
    /\ UNCHANGED notDec

\* a loop whose CharData case hands the text to the decoder on top of the stack,
\* the parent of the current one
DecodeCharDataParent ==
    /\ derr = "nil"
    /\ IF pending = <<>>
       THEN ntext < MaxText /\ ntext' = ntext + 1 /\ pending' = pending
       ELSE pending[1].t = "text" /\ ntext' = ntext /\ pending' = Tail(pending)
    /\ hookLog' = Append(hookLog,
            <<"text", IF state = <<>> THEN currentDecoder.ent.eid
                      ELSE state[Len(state)].ent.eid>>)
    /\ lastStep' = [NoStep EXCEPT !.op = "text"]
    /\ UNCHANGED <<state, names, currentDecoder, currentName, derr, warnings,
                   dAssets, xopen, nelems, nfaults, nunknown>>
    /\ UNCHANGED notDec

\* case xml.CharData: the text goes to the current decoder's Text hook
DecodeCharData ==
    /\ derr = "nil"
    /\ IF pending = <<>>
       THEN ntext < MaxText /\ ntext' = ntext + 1 /\ pending' = pending
       ELSE pending[1].t = "text" /\ ntext' = ntext /\ pending' = Tail(pending)
    /\ hookLog' = Append(hookLog, <<"text", currentDecoder.ent.eid>>)
    /\ lastStep' = [NoStep EXCEPT !.op = "text"]
    /\ UNCHANGED <<state, names, currentDecoder, currentName, derr, warnings,
                   dAssets, xopen, nelems, nfaults, nunknown>>
    /\ UNCHANGED notDec

\* the end tag Token returns next
EndTokens ==
    IF pending = <<>>
    THEN IF xopen = <<>> THEN {} ELSE {EndElement(xopen[Len(xopen)])}
    ELSE IF pending[1].t = "end" THEN {pending[1]} ELSE {}

\* a loop whose EndElement case pops the decoder stack and leaves the name
\* stack as it is
DecodeEndElementKeepNames ==
    /\ derr = "nil"
    /\ \E tok \in EndTokens :
        /\ IF pending = <<>>
           THEN xopen' = SubSeq(xopen, 1, Len(xopen) - 1) /\ pending' = pending
           ELSE xopen' = xopen /\ pending' = Tail(pending)
        /\ IF currentName = tok.Name
           THEN LET e == EndHook(currentDecoder, state, dAssets) IN
                /\ dAssets' = e.assets
                /\ currentDecoder' = e.state[Len(e.state)]
                /\ state' = SubSeq(e.state, 1, Len(e.state) - 1)
                /\ currentName' = names[Len(names)]
                /\ names' = names
                /\ hookLog' = Append(hookLog, <<"end", currentDecoder.ent.eid>>)
                /\ lastStep' = [NoStep EXCEPT !.op = "end", !.name = tok.Name,
                                              !.kind = currentDecoder.kind,
                                              !.eid = currentDecoder.ent.eid]
           ELSE /\ lastStep' = [NoStep EXCEPT !.op = "endskip", !.name = tok.Name]
                /\ UNCHANGED <<state, names, currentDecoder, currentName,
                               dAssets, hookLog>>
    /\ UNCHANGED <<derr, warnings, nelems, nfaults, nunknown, ntext>>
    /\ UNCHANGED notDec

\* case xml.EndElement: when the name is the current one, the End hook, then pop
DecodeEndElement ==
    /\ derr = "nil"
    /\ \E tok \in EndTokens :
        /\ IF pending = <<>>
           THEN xopen' = SubSeq(xopen, 1, Len(xopen) - 1) /\ pending' = pending
           ELSE xopen' = xopen /\ pending' = Tail(pending)
        /\ IF currentName = tok.Name
           THEN LET e == EndHook(currentDecoder, state, dAssets) IN
                /\ dAssets' = e.assets
                /\ currentDecoder' = e.state[Len(e.state)]
                /\ state' = SubSeq(e.state, 1, Len(e.state) - 1)
                /\ currentName' = names[Len(names)]
                /\ names' = SubSeq(names, 1, Len(names) - 1)
                /\ hookLog' = Append(hookLog, <<"end", currentDecoder.ent.eid>>)
                /\ lastStep' = [NoStep EXCEPT !.op = "end", !.name = tok.Name,
                                              !.kind = currentDecoder.kind,
                                              !.eid = currentDecoder.ent.eid]
           ELSE /\ lastStep' = [NoStep EXCEPT !.op = "endskip", !.name = tok.Name]
                /\ UNCHANGED <<state, names, currentDecoder, currentName,
                               dAssets, hookLog>>
    /\ UNCHANGED <<derr, warnings, nelems, nfaults, nunknown, ntext>>
    /\ UNCHANGED notDec

\* Token returns io.EOF at the end of the input: the loop ends
DecodeEOF ==
    /\ derr = "nil"
    /\ pending = <<>>
    /\ xopen = <<>>
    /\ derr' = "EOF"
    /\ lastStep' = [NoStep EXCEPT !.op = "eof"]
    /\ UNCHANGED <<state, names, currentDecoder, currentName, warnings, dAssets,
                   pending, xopen, hookLog, nelems, nfaults, nunknown, ntext>>
    /\ UNCHANGED notDec

\* Token returns a syntax error on malformed input: the loop ends
DecodeSyntaxError ==
    /\ derr = "nil"
    /\ pending = <<>>
    /\ derr' = "syntax"
    /\ lastStep' = [NoStep EXCEPT !.op = "error"]
    /\ UNCHANGED <<state, names, currentDecoder, currentName, warnings, dAssets,
                   pending, xopen, hookLog, nelems, nfaults, nunknown, ntext>>
    /\ UNCHANGED notDec

NextDec ==
    \/ DecodeStartElement
    \/ DecodeCharData
    \/ DecodeEndElement
    \/ DecodeEOF
    \/ DecodeSyntaxError

----------------------------------------------------------------------------
(* The package reader: Reader.Decode *)

\* what modelFile.Decode leaves for a document: the resources and warnings
\* collected up to the end of the input or up to the malformed token, and the
\* error Token returned
DocResults ==
    [resources : 0..MaxDocResources, warnings : 0..MaxDocWarnings,
     err : {"EOF", "syntax"}]

Packages ==
    [hasRoot : BOOLEAN, root : DocResults,
     children : UNION {[1..n -> DocResults] : n \in 0..MaxChildren}]

\* the resources and the warnings of a modelFile, tagged with its document:
\* 0 is the root, i the child i
fileResources(doc, result) == [k \in 1..result.resources |-> <<doc, "resource", k>>]
fileWarnings(doc, result) == [k \in 1..result.warnings |-> <<doc, "warning", k>>]

InitRd ==
    /\ pkg \in Packages
    /\ rdPc = "processOPC"
    /\ rdI = 0
    /\ rdErr = "nil"
    /\ prodAttCount = 0
    /\ mResources = <<>>
    /\ rWarnings = <<>>
    /\ decoded = <<>>

IdleRd ==
    /\ pkg = [hasRoot |-> FALSE, root |-> [resources |-> 0, warnings |-> 0, err |-> "EOF"],
              children |-> <<>>]
    /\ rdPc = "idle"
    /\ rdI = 0
    /\ rdErr = "nil"
    /\ prodAttCount = 0
    /\ mResources = <<>>
    /\ rWarnings = <<>>
    /\ decoded = <<>>

\* a merge that puts the resources and warnings of the document before the
\* ones merged earlier
addModelFileInFront(doc, result) ==
    /\ mResources' = fileResources(doc, result) \o mResources
    /\ rWarnings' = fileWarnings(doc, result) \o rWarnings

\* Reader.addModelFile
addModelFile(doc, result) ==
    /\ mResources' = mResources \o fileResources(doc, result)
    /\ rWarnings' = rWarnings \o fileWarnings(doc, result)

\* Reader.processOPC: without a root model Decode returns its error; else
\* the child documents of the root are listed
processOPC ==
    /\ rdPc = "processOPC"
    /\ IF ~pkg.hasRoot
       THEN /\ rdErr' = "no root model"
            /\ rdPc' = "done"
            /\ UNCHANGED <<prodAttCount, rdI>>
       ELSE /\ prodAttCount' = Len(pkg.children)
            /\ rdI' = Len(pkg.children)
            /\ rdPc' = IF Len(pkg.children) = 0
                       THEN "processRootModel" ELSE "processNonRootModels"
            /\ rdErr' = rdErr
    /\ UNCHANGED <<pkg, mResources, rWarnings, decoded>>
    /\ UNCHANGED notRd

\* one iteration of the loop of Reader.processNonRootModels, from the last
\* child to the first: readProductionAttachmentModel, then addModelFile
processNonRootModels ==
    /\ rdPc = "processNonRootModels"
    /\ LET result == pkg.children[rdI] IN
       /\ decoded' = Append(decoded, rdI)
       /\ IF result.err # "EOF"
          THEN /\ rdErr' = result.err
               /\ rdPc' = "done"
               /\ UNCHANGED <<rdI, mResources, rWarnings>>
          ELSE /\ addModelFile(rdI, result)
               /\ rdI' = rdI - 1
               /\ rdPc' = IF rdI = 1 THEN "processRootModel" ELSE rdPc
               /\ rdErr' = rdErr
    /\ UNCHANGED <<pkg, prodAttCount>>
    /\ UNCHANGED notRd

\* Reader.processRootModel
processRootModel ==
    /\ rdPc = "processRootModel"
    /\ decoded' = Append(decoded, 0)
    /\ IF pkg.root.err # "EOF"
       THEN /\ rdErr' = pkg.root.err
            /\ UNCHANGED <<mResources, rWarnings>>
       ELSE /\ addModelFile(0, pkg.root)
            /\ rdErr' = rdErr
    /\ rdPc' = "done"
    /\ UNCHANGED <<pkg, rdI, prodAttCount>>
    /\ UNCHANGED notRd

NextRd ==
    \/ processOPC
    \/ processNonRootModels
    \/ processRootModel

----------------------------------------------------------------------------
(* The round trip: MarshalModel, then UnmarshalModel *)

ProductionNamespace == "production"

\* an element of the document written: its name, attributes and children
XmlElement(name, attrs, children) ==
    [Name |-> name, Attr |-> attrs, Children |-> children]
NoXml == XmlElement(NoName, <<>>, <<>>)

\* the production extension's attribute entries
ProdAttr(type, uuid, path) == [type |-> type, UUID |-> uuid, Path |-> path]

\* Marshal3MFAttr of BuildAttr, ObjectAttr, ItemAttr and ComponentAttr: the
\* attributes and whether err != nil
Marshal3MFAttr(a) ==
    IF a.type \in {"BuildAttr", "ObjectAttr"}
    THEN [attrs |-> <<XmlAttr(ProductionNamespace, "UUID", a.UUID)>>, err |-> FALSE]
    ELSE IF a.Path = ""
    THEN [attrs |-> <<XmlAttr(ProductionNamespace, "UUID", a.UUID)>>, err |-> FALSE]
    ELSE [attrs |-> <<XmlAttr(ProductionNamespace, "path", a.Path),
                      XmlAttr(ProductionNamespace, "UUID", a.UUID)>>, err |-> FALSE]

\* ext.Marshal3MFAttr(x) of an entry of an AnyAttr: the production
\* extension's entries, or an entry of another extension whose hook may fail
MarshalAttrHook(a) ==
    IF a.type \in {"BuildAttr", "ObjectAttr", "ItemAttr", "ComponentAttr"}
    THEN Marshal3MFAttr(a)
    ELSE IF a.ok THEN [attrs |-> <<XmlAttr(a.type, "value", a.UUID)>>, err |-> FALSE]
    ELSE [attrs |-> <<>>, err |-> TRUE]

\* AnyAttr.encode: the attributes of every entry whose hook succeeds are
\* appended to the start tag
RECURSIVE AnyAttrEncode(_, _, _)
AnyAttrEncode(e, i, startAttr) ==
    IF i > Len(e) THEN startAttr
    ELSE LET r == MarshalAttrHook(e[i]) IN
         AnyAttrEncode(e, i + 1, IF ~r.err THEN startAttr \o r.attrs ELSE startAttr)

\* Marshal3MF of an element of an extension bag: the element it writes, or
\* its error
Marshal3MF(ext) ==
    IF ext.ok
    THEN [out |-> <<XmlElement(XmlName(ext.space, ext.kind), <<>>, <<>>)>>, err |-> FALSE]
    ELSE [out |-> <<>>, err |-> TRUE]

\* the loop of Extension.encode: it returns err, which is nil, after the
\* first element whose hook succeeds, and goes on after one whose hook fails;
\* calls is the number of elements whose hook it has invoked
RECURSIVE ExtensionEncodeLoop(_, _, _)
ExtensionEncodeLoop(e, i, out) ==
    IF i > Len(e) THEN [out |-> out, err |-> FALSE, calls |-> Len(e)]
    ELSE LET r == Marshal3MF(e[i]) IN
         IF ~r.err THEN [out |-> out \o r.out, err |-> r.err, calls |-> i]
         ELSE ExtensionEncodeLoop(e, i + 1, out \o r.out)

\* Extension.encode
ExtensionEncode(e) == ExtensionEncodeLoop(e, 1, <<>>)

\* ---- the core encoder: each entity is written as an element, with the
\* attributes of its AnyAttr and the elements of its Any ----
CoreAttr(name, value) == XmlAttr(nsNone, name, value)

encodeAsset(a) ==
    XmlElement(XmlName("materials", a.kind), <<CoreAttr("id", a.ID)>>, <<>>)

encodeComponent(c) ==
    XmlElement(XmlName(nsCoreSpec, "component"),
               AnyAttrEncode(c.AnyAttr, 1, <<CoreAttr("objectid", c.ObjectID)>>), <<>>)

encodeObject(o) ==
    XmlElement(XmlName(nsCoreSpec, "object"),
               AnyAttrEncode(o.AnyAttr, 1, <<CoreAttr("id", o.ID)>>),
               <<XmlElement(XmlName(nsCoreSpec, "mesh"), <<>>, ExtensionEncode(o.Any).out),
                 XmlElement(XmlName(nsCoreSpec, "components"), <<>>,
                            [i \in 1..Len(o.Components) |-> encodeComponent(o.Components[i])])>>)

encodeItem(it) ==
    XmlElement(XmlName(nsCoreSpec, "item"),
               AnyAttrEncode(it.AnyAttr, 1, <<CoreAttr("objectid", it.ObjectID)>>), <<>>)

MarshalModel(m) ==
    XmlElement(XmlName(nsCoreSpec, "model"), <<>>,
        <<XmlElement(XmlName(nsCoreSpec, "resources"), <<>>,
              [i \in 1..Len(m.Assets) |-> encodeAsset(m.Assets[i])]
                  \o [i \in 1..Len(m.Objects) |-> encodeObject(m.Objects[i])]),
          XmlElement(XmlName(nsCoreSpec, "build"), AnyAttrEncode(m.BuildAttr, 1, <<>>),
              [i \in 1..Len(m.Items) |-> encodeItem(m.Items[i])])>>)

\* ---- the decoder: the production attributes of a start tag make one entry
\* of the entity's AnyAttr, the extension elements of a mesh its Any ----
AttrValue(attrs, name, default) ==
    IF \E i \in 1..Len(attrs) : attrs[i].Name = name
    THEN attrs[CHOOSE i \in 1..Len(attrs) : attrs[i].Name = name].Value
    ELSE default

decodeAnyAttr(type, attrs) ==
    IF \E i \in 1..Len(attrs) : attrs[i].Name.Space = ProductionNamespace
    THEN <<ProdAttr(type, AttrValue(attrs, XmlName(ProductionNamespace, "UUID"), ""),
                    AttrValue(attrs, XmlName(ProductionNamespace, "path"), ""))>>
    ELSE <<>>

decodeAny(children) ==
    [i \in 1..Len(children) |->
        [space |-> children[i].Name.Space, kind |-> children[i].Name.Local, ok |-> TRUE]]

decodeComponent(el) ==
    [ObjectID |-> AttrValue(el.Attr, XmlName(nsNone, "objectid"), "0"),
     AnyAttr |-> decodeAnyAttr("ComponentAttr", el.Attr)]

decodeObject(el) ==
    [ID |-> AttrValue(el.Attr, XmlName(nsNone, "id"), "0"),
     AnyAttr |-> decodeAnyAttr("ObjectAttr", el.Attr),
     Any |-> decodeAny(el.Children[1].Children),
     Components |-> [i \in 1..Len(el.Children[2].Children) |->
                        decodeComponent(el.Children[2].Children[i])]]

decodeItem(el) ==
    [ObjectID |-> AttrValue(el.Attr, XmlName(nsNone, "objectid"), "0"),
     AnyAttr |-> decodeAnyAttr("ItemAttr", el.Attr)]

decodeAsset(el) ==
    [kind |-> el.Name.Local, ID |-> AttrValue(el.Attr, XmlName(nsNone, "id"), "0")]

UnmarshalModel(doc) ==
    LET resources == doc.Children[1].Children
        build == doc.Children[2]
        IsObject(el) == el.Name = XmlName(nsCoreSpec, "object")
        IsAsset(el) == el.Name # XmlName(nsCoreSpec, "object")
        objectEls == SelectSeq(resources, IsObject)
        assetEls == SelectSeq(resources, IsAsset)
    IN  [Assets |-> [i \in 1..Len(assetEls) |-> decodeAsset(assetEls[i])],
         Objects |-> [i \in 1..Len(objectEls) |-> decodeObject(objectEls[i])],
         BuildAttr |-> decodeAnyAttr("BuildAttr", build.Attr),
         Items |-> [i \in 1..Len(build.Children) |-> decodeItem(build.Children[i])]]

\* ---- the Models of the round trip ----
AnyAttrs(type) ==
    {<<>>} \cup {<<ProdAttr(type, u, path)>> :
                    u \in {"", "uuid"},
                    path \in IF type \in {"BuildAttr", "ObjectAttr"} THEN {""} ELSE {"", "/p"}}

\* the elements of a mesh's extension bag; ok says whether the element's
\* marshal hook succeeds
BagElements == [space : {"beamlattice"}, kind : {"beamlattice", "other"}, ok : BOOLEAN]
Bags == UNION {[1..n -> BagElements] : n \in 0..MaxBag}

AssetPool == {[kind |-> "colorgroup", ID |-> "3"], [kind |-> "texture2d", ID |-> "4"]}
AssetLists ==
    {as \in UNION {[1..n -> AssetPool] : n \in 0..MaxAssets} :
        \A i, j \in 1..Len(as) : i # j => as[i] # as[j]}

Components ==
    {<<>>} \cup {<<[ObjectID |-> "2", AnyAttr |-> a]>> : a \in AnyAttrs("ComponentAttr")}
Objects ==
    [ID : {"1"}, AnyAttr : AnyAttrs("ObjectAttr"), Any : Bags, Components : Components]
Items ==
    {<<>>} \cup {<<[ObjectID |-> "1", AnyAttr |-> a]>> : a \in AnyAttrs("ItemAttr")}

Models ==
    [Assets : AssetLists, Objects : {<<o>> : o \in Objects},
     BuildAttr : AnyAttrs("BuildAttr"), Items : Items]

EmptyModel == [Assets |-> <<>>, Objects |-> <<>>, BuildAttr |-> <<>>, Items |-> <<>>]

InitRt ==
    /\ rtModel \in Models
    /\ rtPc = "MarshalModel"
    /\ rtXml = NoXml
    /\ newModel = EmptyModel

IdleRt ==
    /\ rtModel = EmptyModel
    /\ rtPc = "idle"
    /\ rtXml = NoXml
    /\ newModel = EmptyModel

\* b, err := go3mf.MarshalModel(m)
Marshal ==
    /\ rtPc = "MarshalModel"
    /\ rtXml' = MarshalModel(rtModel)
    /\ rtPc' = "UnmarshalModel"
    /\ UNCHANGED <<rtModel, newModel>>
    /\ UNCHANGED notRt

\* go3mf.UnmarshalModel(b, newModel)
Unmarshal ==
    /\ rtPc = "UnmarshalModel"
    /\ newModel' = UnmarshalModel(rtXml)
    /\ rtPc' = "done"
    /\ UNCHANGED <<rtModel, rtXml>>
    /\ UNCHANGED notRt

NextRt ==
    \/ Marshal
    \/ Unmarshal

----------------------------------------------------------------------------
(* The extension bags: Extension.encode, AnyAttr.encode *)

\* the elements of an Extension: the concrete type is the kind; ok says
\* whether the element's marshal hook succeeds
NilElement == [space |-> "", kind |-> "nil", ok |-> FALSE]
ExtensionElements == BagElements \cup {NilElement}
\* the entries of an AnyAttr: entries of the production extension, whose hooks
\* succeed, and entries of another extension, whose hook may fail
NilEntry == [type |-> "nil", UUID |-> "", Path |-> "", ok |-> FALSE]
AnyAttrEntries ==
    {NilEntry, [type |-> "ObjectAttr", UUID |-> "uuid", Path |-> "", ok |-> TRUE]}
        \cup [type : {"ItemAttr"}, UUID : {"uuid"}, Path : {"", "/p"}, ok : {TRUE}]
        \cup [type : {"custom"}, UUID : {"v"}, Path : {""}, ok : BOOLEAN]

NoBagRes == [out |-> <<>>, err |-> FALSE, calls |-> 0]

\* the types of the targets of Get: the concrete types of the elements, the
\* marshaler interface every element implements, and an interface that some
\* implement
ExtensionTypes == {"beamlattice", "other"}
AnyAttrTypes == {"ObjectAttr", "ItemAttr", "custom"}
Implementers(iface) ==
    CASE iface = "Marshaler" -> ExtensionTypes
      [] iface = "MarshalerAttr" -> AnyAttrTypes
      [] iface = "objectPather" -> {"ItemAttr", "ComponentAttr"}
      [] iface = "beamLatticer" -> {"beamlattice"}
      [] OTHER -> {}
Interfaces == {"Marshaler", "MarshalerAttr", "objectPather", "beamLatticer"}

\* reflect.Type.AssignableTo: the types are identical, or the target is an
\* interface the type implements
AssignableTo(type, targetType) ==
    type = targetType \/ (targetType \in Interfaces /\ type \in Implementers(targetType))

NoValue == [kind |-> "unset"]

\* a loop that goes on to the last assignable element
RECURSIVE GetLoopLast(_, _, _, _)
GetLoopLast(e, types, targetType, i) ==
    IF i > Len(e) THEN [ok |-> FALSE, value |-> NoValue, panic |-> FALSE]
    ELSE IF GetLoopLast(e, types, targetType, i + 1).ok
    THEN GetLoopLast(e, types, targetType, i + 1)
    ELSE IF types[i] # "nil" /\ AssignableTo(types[i], targetType)
    THEN [ok |-> TRUE, value |-> e[i], panic |-> FALSE]
    ELSE [ok |-> FALSE, value |-> NoValue, panic |-> FALSE]

\* the loop of Get: the first element that is not nil and whose type is
\* assignable to the target's type is stored in the target
RECURSIVE GetLoop(_, _, _, _)
GetLoop(e, types, targetType, i) ==
    IF i > Len(e) THEN [ok |-> FALSE, value |-> NoValue, panic |-> FALSE]
    ELSE IF types[i] # "nil" /\ AssignableTo(types[i], targetType)
    THEN [ok |-> TRUE, value |-> e[i], panic |-> FALSE]
    ELSE GetLoop(e, types, targetType, i + 1)

\* Get: false for an empty bag, before the target is looked at; a panic for a
\* target that is nil; else the loop
Get(e, types, targetType) ==
    IF Len(e) = 0 THEN [ok |-> FALSE, value |-> NoValue, panic |-> FALSE]
    ELSE IF targetType = "nil" THEN [ok |-> FALSE, value |-> NoValue, panic |-> TRUE]
    ELSE GetLoop(e, types, targetType, 1)

\* Extension.Get and AnyAttr.Get
ExtensionGet(e, targetType) == Get(e, [i \in 1..Len(e) |-> e[i].kind], targetType)
AnyAttrGet(e, targetType) == Get(e, [i \in 1..Len(e) |-> e[i].type], targetType)

\* the targets of Extension.Get and of AnyAttr.Get: pointers to a type that
\* implements the marshaler interface or to an interface, and nil
ExtensionTargets == ExtensionTypes \cup {"Marshaler", "beamLatticer", "nil"}
AnyAttrTargets == AnyAttrTypes \cup {"MarshalerAttr", "objectPather", "nil"}

InitBag ==
    /\ bag \in UNION {[1..n -> ExtensionElements] : n \in 0..MaxBag}
    /\ attrBag \in UNION {[1..n -> AnyAttrEntries] : n \in 0..MaxBag}
    /\ bagOp = [op |-> "new", target |-> "", before |-> <<>>]
    /\ bagRes = NoBagRes

IdleBag ==
    /\ bag = <<>>
    /\ attrBag = <<>>
    /\ bagOp = [op |-> "idle", target |-> "", before |-> <<>>]
    /\ bagRes = NoBagRes

\* err := e.encode(x) on the Extension; the hook of a nil element cannot be
\* called, so the bag has none
EncodeExtension ==
    /\ \A i \in 1..Len(bag) : bag[i] # NilElement
    /\ bagOp' = [op |-> "Extension.encode", target |-> "", before |-> bag]
    /\ bagRes' = ExtensionEncode(bag)
    /\ UNCHANGED <<bag, attrBag>>
    /\ UNCHANGED notBag

\* e.encode(x, start) on the AnyAttr: it has no result, so no error is returned
EncodeAnyAttr ==
    /\ \A i \in 1..Len(attrBag) : attrBag[i] # NilEntry
    /\ bagOp' = [op |-> "AnyAttr.encode", target |-> "", before |-> attrBag]
    /\ bagRes' = [out |-> AnyAttrEncode(attrBag, 1, <<>>), err |-> FALSE,
                  calls |-> Len(attrBag)]
    /\ UNCHANGED <<bag, attrBag>>
    /\ UNCHANGED notBag

\* ok := e.Get(&target) on the Extension; the bag is read only
GetExtension(targetType) ==
    /\ bagOp.op = "new"
    /\ bagOp' = [op |-> "Extension.Get", target |-> targetType, before |-> bag]
    /\ bagRes' = ExtensionGet(bag, targetType)
    /\ UNCHANGED <<bag, attrBag>>
    /\ UNCHANGED notBag

\* ok := e.Get(&target) on the AnyAttr
GetAnyAttr(targetType) ==
    /\ bagOp.op = "new"
    /\ bagOp' = [op |-> "AnyAttr.Get", target |-> targetType, before |-> attrBag]
    /\ bagRes' = AnyAttrGet(attrBag, targetType)
    /\ UNCHANGED <<bag, attrBag>>
    /\ UNCHANGED notBag

NextBag ==
    \/ EncodeExtension
    \/ EncodeAnyAttr
    \/ \E targetType \in ExtensionTargets : GetExtension(targetType)
    \/ \E targetType \in AnyAttrTargets : GetAnyAttr(targetType)

----------------------------------------------------------------------------
(* The Model's lookups and the validators of the materials extension *)

DefaultModelPath == "/3D/3dmodel.model"

\* Model.PathOrDefault
PathOrDefault(m) == IF m.Path = "" THEN DefaultModelPath ELSE m.Path

IDs(s) == [i \in 1..Len(s) |-> s[i].ID]

NoResources == [Assets |-> <<>>, Objects |-> <<>>]

\* a lookup that resolves every path to the root's Resources
FindResourcesRoot(m, path) == [rs |-> m.Resources, ok |-> TRUE]

\* Model.FindResources: the root's Resources for the empty path, the Model's
\* path and, when the Model has no path, the default path; else the child's
FindResources(m, path) ==
    IF path = "" \/ path = m.Path \/ (m.Path = "" /\ path = DefaultModelPath)
    THEN [rs |-> m.Resources, ok |-> TRUE]
    ELSE IF path \in DOMAIN m.Childs
    THEN [rs |-> m.Childs[path].Resources, ok |-> TRUE]
    ELSE [rs |-> NoResources, ok |-> FALSE]

\* Model.FindAsset: pos is the 1-based position of the asset returned
ModelFindAsset(m, path, id) ==
    LET f == FindResources(m, path) IN
    IF f.ok
    THEN LET i == FindAsset(IDs(f.rs.Assets), id) IN
         IF i > 0 THEN [ok |-> TRUE, pos |-> i, value |-> f.rs.Assets[i]]
         ELSE [ok |-> FALSE, pos |-> 0, value |-> [kind |-> "nil", ID |-> 0]]
    ELSE [ok |-> FALSE, pos |-> 0, value |-> [kind |-> "nil", ID |-> 0]]

\* Model.FindObject
ModelFindObject(m, path, id) ==
    LET f == FindResources(m, path) IN
    IF f.ok
    THEN LET i == FindObject(IDs(f.rs.Objects), id) IN
         IF i > 0 THEN [ok |-> TRUE, pos |-> i, value |-> f.rs.Objects[i]]
         ELSE [ok |-> FALSE, pos |-> 0, value |-> [kind |-> "nil", ID |-> 0]]
    ELSE [ok |-> FALSE, pos |-> 0, value |-> [kind |-> "nil", ID |-> 0]]

\* the errors of the validators: a sentinel error, or a MissingFieldError
\* with the attribute's name; doc and path are set by the callers that wrap it
NewError(msg) == [doc |-> "", path |-> <<>>, msg |-> msg, name |-> ""]
NewMissingFieldError(name) ==
    [doc |-> "", path |-> <<>>, msg |-> "MissingFieldError", name |-> name]

\* color.RGBA{}
ZeroRGBA == "RGBA{}"

\* a loop over the colors that stops at the first zero color
RECURSIVE ColorsLoopBreak(_, _, _)
ColorsLoopBreak(r, j, errs) ==
    IF j > Len(r.Colors) THEN errs
    ELSE IF r.Colors[j] = ZeroRGBA
    THEN errs \o WrapIndex(<<NewMissingFieldError("attrColor")>>, "RGBA", j - 1, 0)
    ELSE ColorsLoopBreak(r, j + 1, errs)

\* the loop of validateColorGroup over the colors
RECURSIVE ColorsLoop(_, _, _)
ColorsLoop(r, j, errs) ==
    IF j > Len(r.Colors) THEN errs
    ELSE ColorsLoop(r, j + 1,
            IF r.Colors[j] = ZeroRGBA
            THEN errs \o WrapIndex(<<NewMissingFieldError("attrColor")>>, "RGBA", j - 1, 0)
            ELSE errs)

validateColorGroup(path, r) ==
    LET e1 == AppendIf(<<>>, r.ID = 0, NewError("ErrMissingID"))
        e2 == AppendIf(e1, Len(r.Colors) = 0, NewError("ErrEmptyResourceProps"))
    IN ColorsLoop(r, 1, e2)

validateTexture2DGroup(m, path, r) ==
    LET e1 == AppendIf(<<>>, r.ID = 0, NewError("ErrMissingID"))
        text == ModelFindAsset(m, path, r.TextureID)
        e2 == IF r.TextureID = 0 THEN Append(e1, NewMissingFieldError("attrTexID"))
              ELSE IF text.ok
              THEN AppendIf(e1, text.value.kind # "Texture2D", NewError("ErrTextureReference"))
              ELSE Append(e1, NewError("ErrTextureReference"))
    IN AppendIf(e2, r.Coords = 0, NewError("ErrEmptyResourceProps"))

\* strings.EqualFold on the part names of the model
Fold(p) == IF p = "/A.PNG" THEN "/a.png" ELSE p
EqualFold(p, q) == Fold(p) = Fold(q)

validateTexture2D(m, path, r) ==
    LET e1 == AppendIf(<<>>, r.ID = 0, NewError("ErrMissingID"))
        hasTexture == \E i \in 1..Len(m.Attachments) : EqualFold(m.Attachments[i], r.Path)
        e2 == IF r.Path = "" THEN Append(e1, NewMissingFieldError("attrPath"))
              ELSE AppendIf(e1, ~hasTexture, NewError("ErrMissingTexturePart"))
    IN AppendIf(e2, r.ContentType = 0, NewMissingFieldError("attrContentType"))

\* the loop of validateMultiProps over the property IDs; st holds errs,
\* colorCount, resourceUndefined and lengths
RECURSIVE MultiPIDsLoop(_, _, _, _, _)
MultiPIDsLoop(m, path, r, j, st) ==
    IF j > Len(r.PIDs) THEN st
    ELSE LET pr == ModelFindAsset(m, path, r.PIDs[j])
             kind == pr.value.kind
             next ==
                IF pr.ok
                THEN CASE kind = "BaseMaterials" ->
                            [st EXCEPT !.errs = AppendIf(@, j # 1, NewError("ErrMaterialMulti")),
                                       !.lengths[j] = pr.value.Materials]
                       [] kind = "CompositeMaterials" ->
                            [st EXCEPT !.errs = AppendIf(@, j # 1, NewError("ErrMaterialMulti")),
                                       !.lengths[j] = pr.value.Composites]
                       [] kind = "MultiProperties" ->
                            [st EXCEPT !.errs = Append(@, NewError("ErrMultiRefMulti"))]
                       [] kind = "ColorGroup" ->
                            [st EXCEPT !.errs = AppendIf(@, st.colorCount = 1, NewError("ErrMultiColors")),
                                       !.colorCount = @ + 1,
                                       !.lengths[j] = Len(pr.value.Colors)]
                       [] OTHER -> st
                ELSE IF ~st.resourceUndefined
                THEN [st EXCEPT !.resourceUndefined = TRUE,
                                !.errs = Append(@, NewError("ErrMissingResource"))]
                ELSE st
         IN MultiPIDsLoop(m, path, r, j + 1, next)

\* the inner loop of validateMultiProps: whether some slot k of the entry,
\* below the number of property IDs, has lengths[k] < index
SlotOutOfBounds(r, lengths, pindices) ==
    \E k \in 1..Len(pindices) : k <= Len(r.PIDs) /\ lengths[k] < pindices[k]

\* the loop of validateMultiProps over the combination entries
RECURSIVE MultisLoop(_, _, _, _)
MultisLoop(r, lengths, j, errs) ==
    IF j > Len(r.Multis) THEN errs
    ELSE MultisLoop(r, lengths, j + 1,
            IF SlotOutOfBounds(r, lengths, r.Multis[j])
            THEN errs \o WrapIndex(<<NewError("ErrIndexOutOfBounds")>>, "Multi", j - 1, 0)
            ELSE errs)

\* a bound of len(r.PIDs) blend methods
TooManyBlendMethodsN(r) == r.BlendMethods > Len(r.PIDs)

\* len(r.BlendMethods) > len(r.PIDs)-1, on ints
TooManyBlendMethods(r) == r.BlendMethods > Len(r.PIDs) - 1

validateMultiProps(m, path, r) ==
    LET e1 == AppendIf(<<>>, r.ID = 0, NewError("ErrMissingID"))
        e2 == AppendIf(e1, Len(r.PIDs) = 0, NewMissingFieldError("attrPIDs"))
        e3 == AppendIf(e2, TooManyBlendMethods(r), NewError("ErrMultiBlend"))
        e4 == AppendIf(e3, Len(r.Multis) = 0, NewError("ErrEmptyResourceProps"))
        st == MultiPIDsLoop(m, path, r, 1,
                [errs |-> e4, colorCount |-> 0, resourceUndefined |-> FALSE,
                 lengths |-> [k \in 1..Len(r.PIDs) |-> 0]])
    IN MultisLoop(r, st.lengths, 1, st.errs)

validateCompositeMat(m, path, r) ==
    LET e1 == AppendIf(<<>>, r.ID = 0, NewError("ErrMissingID"))
        mat == ModelFindAsset(m, path, r.MaterialID)
        e2 == IF r.MaterialID = 0 THEN Append(e1, NewMissingFieldError("attrMatID"))
              ELSE IF mat.ok
              THEN IF mat.value.kind = "BaseMaterials"
                   THEN AppendIf(e1, \E i \in 1..Len(r.Indices) :
                                        r.Indices[i] > mat.value.Materials,
                                 NewError("ErrIndexOutOfBounds"))
                   ELSE Append(e1, NewError("ErrCompositeBase"))
              ELSE Append(e1, NewError("ErrMissingResource"))
        e3 == AppendIf(e2, Len(r.Indices) = 0, NewMissingFieldError("attrMatIndices"))
    IN AppendIf(e3, r.Composites = 0, NewError("ErrEmptyResourceProps"))

\* validateAsset: the validator of the asset's kind; the assets of the core
\* and of other extensions have none here
validateAsset(m, path, r) ==
    CASE r.kind = "ColorGroup" -> validateColorGroup(path, r)
      [] r.kind = "Texture2DGroup" -> validateTexture2DGroup(m, path, r)
      [] r.kind = "Texture2D" -> validateTexture2D(m, path, r)
      [] r.kind = "MultiProperties" -> validateMultiProps(m, path, r)
      [] r.kind = "CompositeMaterials" -> validateCompositeMat(m, path, r)
      [] OTHER -> <<>>

\* a Validate hook that stops at the first failed check of the asset
SpecValidateFirst(m, path, asset) == SubSeq(validateAsset(m, path, asset), 1, 1)

\* Spec.Validate of the materials extension: every asset of the model is an
\* Asset, so the asset's validator runs
SpecValidate(m, path, asset) == validateAsset(m, path, asset)

\* the errors of one asset: the core's check of the ID, then the extension's
\* checks
AssetErrors(m, path, asset) ==
    AppendIf(<<>>, asset.ID = 0, NewError("ErrMissingID")) \o SpecValidate(m, path, asset)

\* the errors of the assets of one document, each wrapped with the asset's
\* kind and position, under the segment Resources
RECURSIVE ResourcesValidateLoop(_, _, _, _, _)
ResourcesValidateLoop(m, path, rs, i, errs) ==
    IF i > Len(rs.Assets) THEN errs
    ELSE ResourcesValidateLoop(m, path, rs, i + 1,
            errs \o WrapIndex(AssetErrors(m, path, rs.Assets[i]),
                              rs.Assets[i].kind, i - 1, 0))
ResourcesValidate(m, path, rs) ==
    LET errs == ResourcesValidateLoop(m, path, rs, 1, <<>>) IN
    [j \in 1..Len(errs) |->
        [errs[j] EXCEPT !.path = <<[kind |-> "Resources", index |-> 0, eid |-> 0]>> \o @]]

\* the errors of a child document carry the document's path
WrapPath(errs, path) == [j \in 1..Len(errs) |-> [errs[j] EXCEPT !.doc = path]]

\* the paths of the child documents, in ascending order
ChildPaths == <<"/a.model", "/b.model">>
sortedChilds(m) == SelectSeq(ChildPaths, LAMBDA p : p \in DOMAIN m.Childs)

RECURSIVE ChildsValidateLoop(_, _, _, _)
ChildsValidateLoop(m, paths, i, errs) ==
    IF i > Len(paths) THEN errs
    ELSE ChildsValidateLoop(m, paths, i + 1,
            errs \o WrapPath(ResourcesValidate(m, paths[i], m.Childs[paths[i]].Resources),
                             paths[i]))

\* Model.Validate: the errors of the root document, without a document path,
\* then those of every child document; the empty list is nil
ModelValidate(m) ==
    ChildsValidateLoop(m, sortedChilds(m), 1,
                       ResourcesValidate(m, PathOrDefault(m), m.Resources))

\* ---- the Models that are validated ----
SeqsUpTo(S, n) == UNION {[1..k -> S] : k \in 0..n}

RECURSIVE SumLen(_, _)
SumLen(ss, i) == IF i > Len(ss) THEN 0 ELSE Len(ss[i]) + SumLen(ss, i + 1)

Colors == {ZeroRGBA, "RGBA{1}"}
AssetIDs == {0, 3}
ColorGroups ==
    [kind : {"ColorGroup"}, ID : AssetIDs, Colors : SeqsUpTo(Colors, MaxProps)]
Texture2Ds ==
    [kind : {"Texture2D"}, ID : AssetIDs, Path : {"", "/a.png", "/A.PNG", "/b.png"},
     ContentType : 0..1]
Texture2DGroups ==
    [kind : {"Texture2DGroup"}, ID : AssetIDs, TextureID : 0..2, Coords : 0..1]
Multis ==
    {ms \in SeqsUpTo(SeqsUpTo(0..MaxIndex, MaxSlots), MaxMultis) : SumLen(ms, 1) <= MaxSlots}
MultiPropertiesSet ==
    [kind : {"MultiProperties"}, ID : {3}, PIDs : SeqsUpTo(1..2, MaxPIDs),
     BlendMethods : 0..MaxBlend, Multis : Multis]
CompositeMaterialsSet ==
    [kind : {"CompositeMaterials"}, ID : {3}, MaterialID : 0..2,
     Indices : SeqsUpTo(0..MaxIndex, MaxProps), Composites : 0..1]
\* the asset under validation
Subjects ==
    ColorGroups \cup Texture2Ds \cup Texture2DGroups \cup MultiPropertiesSet
        \cup CompositeMaterialsSet

\* the assets the asset under validation may refer to, with the IDs 1 and 2
BaseMaterials(id, n) == [kind |-> "BaseMaterials", ID |-> id, Materials |-> n]
Referenced1 == {<<>>, <<BaseMaterials(1, 1)>>}
Referenced2 ==
    {<<>>,
     <<[kind |-> "ColorGroup", ID |-> 2, Colors |-> <<"RGBA{1}", "RGBA{1}">>]>>,
     <<[kind |-> "CompositeMaterials", ID |-> 2, MaterialID |-> 1, Indices |-> <<0>>,
        Composites |-> 1]>>,
     <<[kind |-> "MultiProperties", ID |-> 2, PIDs |-> <<1>>, BlendMethods |-> 0,
        Multis |-> <<<<0>>>>]>>,
     <<[kind |-> "Texture2D", ID |-> 2, Path |-> "/a.png", ContentType |-> 1]>>}
\* another document of the same Model, whose assets have the same IDs
OtherDocs ==
    {<<>>,
     <<BaseMaterials(1, 2),
       [kind |-> "Texture2D", ID |-> 2, Path |-> "/a.png", ContentType |-> 1]>>,
     <<[kind |-> "ColorGroup", ID |-> 2, Colors |-> <<>>]>>}

Resources(as) == [Assets |-> as, Objects |-> <<>>]
ChildModel(as) == [Resources |-> Resources(as)]
NewModel(path, root, childs) ==
    [Path |-> path, Attachments |-> <<"/a.png">>, Resources |-> Resources(root),
     Childs |-> childs]
ModelPaths == {"", "/root.model"}
\* where the two documents are: the root and a child, or two children
Arrangements == {"root", "child", "children"}
Arrange(p, arr, s, o) ==
    CASE arr = "root" -> NewModel(p, s, "/a.model" :> ChildModel(o))
      [] arr = "child" -> NewModel(p, o, "/a.model" :> ChildModel(s))
      [] OTHER -> NewModel(p, <<>>, ("/a.model" :> ChildModel(o)) @@ ("/b.model" :> ChildModel(s)))

NoFound == [ok |-> FALSE, pos |-> 0, value |-> [kind |-> "nil", ID |-> 0]]

InitVal ==
    /\ \E p \in ModelPaths, arr \in Arrangements, r1 \in Referenced1, r2 \in Referenced2,
          s \in Subjects, o \in OtherDocs :
            valModel = Arrange(p, arr, r1 \o r2 \o <<s>>, o)
    /\ valOp = [op |-> "new", path |-> "", id |-> 0]
    /\ valErrs = <<>>
    /\ found = NoFound

IdleVal ==
    /\ valModel = NewModel("", <<>>, <<>>)
    /\ valOp = [op |-> "idle", path |-> "", id |-> 0]
    /\ valErrs = <<>>
    /\ found = NoFound

\* a Validate that clears the fields it reports on: the attachments no
\* texture names
ValidateAndRepair ==
    /\ valOp.op = "new"
    /\ valOp' = [op |-> "Validate", path |-> "", id |-> 0]
    /\ valErrs' = ModelValidate(valModel)
    /\ valModel' = IF valErrs' = <<>> THEN valModel
                   ELSE [valModel EXCEPT !.Attachments = <<>>]
    /\ UNCHANGED found
    /\ UNCHANGED notVal

\* err := m.Validate()
Validate ==
    /\ valOp.op = "new"
    /\ valOp' = [op |-> "Validate", path |-> "", id |-> 0]
    /\ valErrs' = ModelValidate(valModel)
    /\ UNCHANGED <<valModel, found>>
    /\ UNCHANGED notVal

NextVal == Validate

\* ---- the Models that are searched ----
\* entries of one document with equal IDs differ in another field
FindAssets == {BaseMaterials(1, 1), BaseMaterials(1, 2), BaseMaterials(2, 1)}
Object(id, name) == [ID |-> id, Name |-> name]
FindObjects == {Object(1, "a"), Object(1, "b"), Object(2, "a")}
RootDocs ==
    [Assets : SeqsUpTo(FindAssets, MaxEntries), Objects : SeqsUpTo(FindObjects, MaxEntries)]
ChildDocs ==
    {NoResources,
     [Assets |-> <<BaseMaterials(1, 2)>>, Objects |-> <<Object(2, "a")>>],
     [Assets |-> <<BaseMaterials(2, 1)>>, Objects |-> <<Object(1, "b"), Object(1, "a")>>]}
\* the keys of the children: none is empty, none is the root's path
ChildKeys(p) ==
    IF p = "/root.model" THEN {"/a.model", DefaultModelPath} ELSE {"/a.model", "/b.model"}
FindPaths == {"", "/root.model", DefaultModelPath, "/a.model", "/none.model"}
FindIDs == 1..3

InitFind ==
    /\ \E p \in {"", "/root.model", DefaultModelPath}, rs \in RootDocs :
          \E keys \in SUBSET ChildKeys(p) : \E cs \in [keys -> ChildDocs] :
            valModel = [Path |-> p, Attachments |-> <<>>, Resources |-> rs,
                        Childs |-> [k \in keys |-> [Resources |-> cs[k]]]]
    /\ valOp = [op |-> "new", path |-> "", id |-> 0]
    /\ valErrs = <<>>
    /\ found = NoFound

\* rs, ok := m.FindResources(path)
CallFindResources(path) ==
    /\ valOp.op = "new"
    /\ valOp' = [op |-> "FindResources", path |-> path, id |-> 0]
    /\ found' = FindResources(valModel, path)
    /\ UNCHANGED <<valModel, valErrs>>
    /\ UNCHANGED notVal

\* a, ok := m.FindAsset(path, id)
CallFindAsset(path, id) ==
    /\ valOp.op = "new"
    /\ valOp' = [op |-> "FindAsset", path |-> path, id |-> id]
    /\ found' = ModelFindAsset(valModel, path, id)
    /\ UNCHANGED <<valModel, valErrs>>
    /\ UNCHANGED notVal

\* o, ok := m.FindObject(path, id)
CallFindObject(path, id) ==
    /\ valOp.op = "new"
    /\ valOp' = [op |-> "FindObject", path |-> path, id |-> id]
    /\ found' = ModelFindObject(valModel, path, id)
    /\ UNCHANGED <<valModel, valErrs>>
    /\ UNCHANGED notVal

NextFind ==
    \/ \E path \in FindPaths : CallFindResources(path)
    \/ \E path \in FindPaths, id \in FindIDs : CallFindAsset(path, id)
    \/ \E path \in FindPaths, id \in FindIDs : CallFindObject(path, id)

----------------------------------------------------------------------------
(* The mesh builder *)

\* the points that are added
Points == {"p1", "p2", "p3"}

\* vectorTree.FindVector: the index recorded for exactly this point
FindVector(tree, node) ==
    IF node \in DOMAIN tree THEN [index |-> tree[node], ok |-> TRUE]
    ELSE [index |-> 0, ok |-> FALSE]

\* vectorTree.AddVector
AddVector(tree, node, index) == [p \in DOMAIN tree \cup {node} |->
                                    IF p = node THEN index ELSE tree[p]]

\* NewMeshBuilder over an empty Mesh
NewMeshBuilder ==
    [CalculateConnectivity |-> TRUE, Vertices |-> <<>>, vectorTree |-> <<>>]

\* a builder that never looks a point up
AddVertexAppend(b, node) ==
    [mb |-> [b EXCEPT !.Vertices = Append(@, node)], index |-> Len(b.Vertices)]

\* MeshBuilder.AddVertex: the builder after the call and the index returned;
\* uint32(len(Vertices)) - 1 is the 0-based position of the appended vertex:
\* the list is not empty after the append and is far shorter than 2^32
AddVertexResult(b, node) ==
    LET f == FindVector(b.vectorTree, node) IN
    IF b.CalculateConnectivity /\ f.ok
    THEN [mb |-> b, index |-> f.index]
    ELSE LET vs == Append(b.Vertices, node)
             index == Len(vs) - 1
         IN [mb |-> [b EXCEPT !.Vertices = vs,
                              !.vectorTree = IF b.CalculateConnectivity
                                             THEN AddVector(@, node, index) ELSE @],
             index |-> index]

InitMesh ==
    /\ mb = NewMeshBuilder
    /\ vcalls = <<>>

IdleMesh == InitMesh

\* index := mb.AddVertex(node)
AddVertex(node) ==
    /\ Len(vcalls) < MaxVertexCalls
    /\ mb' = AddVertexResult(mb, node).mb
    /\ vcalls' = Append(vcalls, [node |-> node, index |-> AddVertexResult(mb, node).index,
                                 connectivity |-> mb.CalculateConnectivity])
    /\ UNCHANGED notMesh

\* mb.CalculateConnectivity = b, by the builder's owner
SetCalculateConnectivity(b) ==
    /\ mb.CalculateConnectivity # b
    /\ mb' = [mb EXCEPT !.CalculateConnectivity = b]
    /\ UNCHANGED vcalls
    /\ UNCHANGED notMesh

NextMesh ==
    \/ \E node \in Points : AddVertex(node)
    \/ \E b \in BOOLEAN : SetCalculateConnectivity(b)

----------------------------------------------------------------------------
(* One modelFile: AddResource and FindResource *)

\* the path of the root document, Reader.Model.Path, and of two child documents
RootModelPath == "/3D/3dmodel.model"
ChildModelPaths == {"/3D/other.model", "/3D/third.model"}
MfPaths == {RootModelPath} \cup ChildModelPaths

\* a resource: what Identify returns, and its content
MfContents == {"a", "b"}
MfResource(path, id, content) == [path |-> path, id |-> id, content |-> content]
NilResource == MfResource("", 0, "nil")
NotFound == [r |-> NilResource, ok |-> FALSE]

\* a scan of an ordered list for the first resource that Identify tells to be
\* (path, id)
RECURSIVE ScanResources(_, _, _, _)
ScanResources(list, path, id, i) ==
    IF i > Len(list) THEN NotFound
    ELSE IF list[i].path = path /\ list[i].id = id
         THEN [r |-> list[i], ok |-> TRUE]
         ELSE ScanResources(list, path, id, i + 1)

\* Model.FindResource: the shared Model is searched for (path, id)
ModelFindResource(path, id) == ScanResources(modelResources, path, id, 1)

\* r, ok = d.resourcesMap[id]
MapLookup(m, id) ==
    IF id \in DOMAIN m THEN [r |-> m[id], ok |-> TRUE] ELSE NotFound

\* modelFile.FindResource
FindResource(path, id) ==
    LET p == IF path = "" THEN RootModelPath ELSE path IN
    IF p = mfPath THEN MapLookup(resourcesMap, id) ELSE ModelFindResource(p, id)

InitMf ==
    /\ mfPath \in MfPaths
    /\ resourcesMap = <<>>
    /\ mfResources = <<>>
    /\ modelResources \in
          {<<>>} \cup {<<MfResource(p, 1, "a")>> : p \in ChildModelPaths \ {mfPath}}
    /\ mfOp = [op |-> "none"]

IdleMf ==
    /\ mfPath = RootModelPath
    /\ resourcesMap = <<>>
    /\ mfResources = <<>>
    /\ modelResources = <<>>
    /\ mfOp = [op |-> "none"]

\* d.AddResource(r), r a resource decoded from the document
AddResource(r) ==
    /\ Len(mfResources) < MaxMfResources
    /\ resourcesMap' = [k \in DOMAIN resourcesMap \cup {r.id} |->
                            IF k = r.id THEN r ELSE resourcesMap[k]]
    /\ mfResources' = Append(mfResources, r)
    /\ mfOp' = [op |-> "add", r |-> r]
    /\ UNCHANGED <<mfPath, modelResources>>
    /\ UNCHANGED notMf

\* r, ok := d.FindResource(path, id)
CallFindResource(path, id) ==
    /\ mfOp' = [op |-> "find", path |-> path, id |-> id, ret |-> FindResource(path, id)]
    /\ UNCHANGED <<mfPath, resourcesMap, mfResources, modelResources>>
    /\ UNCHANGED notMf

NextMf ==
    \/ \E id \in 1..MaxMfID, c \in MfContents : AddResource(MfResource(mfPath, id, c))
    \/ \E path \in MfPaths \cup {""}, id \in 1..MaxMfID : CallFindResource(path, id)

----------------------------------------------------------------------------
(* The slice attributes of an Object: objectAttrDecoder *)

\* the slice extension's entry of an Object's bag, and the entries of other
\* extensions
SliceObjectAttr(id, res) ==
    [type |-> "slices.ObjectAttr", SliceStackID |-> id, MeshResolution |-> res]
OtherObjectAttrs ==
    {[type |-> "production.ObjectAttr", UUID |-> "uuid"],
     [type |-> "custom", UUID |-> "v"]}

\* newMeshResolution: the resolution a text names, and whether it names one
newMeshResolution(s) ==
    CASE s = "fullres" -> [res |-> "ResolutionFull", ok |-> TRUE]
      [] s = "lowres" -> [res |-> "ResolutionLow", ok |-> TRUE]
      [] OTHER -> [res |-> "ResolutionFull", ok |-> FALSE]

\* GetObjectAttr: the position of the first slice entry of the bag, 0 for nil
RECURSIVE GetObjectAttrFrom(_, _)
GetObjectAttrFrom(bg, i) ==
    IF i > Len(bg) THEN 0
    ELSE IF bg[i].type = "slices.ObjectAttr" THEN i
    ELSE GetObjectAttrFrom(bg, i + 1)
GetObjectAttr(bg) == GetObjectAttrFrom(bg, 1)

\* a decoder that appends an entry for every slice attribute
objectAttrDecoderAppend(bg, a) ==
    CASE a.Name.Local = "slicestackid" ->
            LET p == ParseUint(a.Value) IN
            [bag |-> Append(bg, SliceObjectAttr(p.val, "ResolutionFull")),
             errs |-> AppendIf(<<>>, p.err, NewParseAttrError(a.Name.Local, TRUE))]
      [] a.Name.Local = "meshresolution" ->
            LET m == newMeshResolution(a.Value) IN
            [bag |-> Append(bg, SliceObjectAttr("0", m.res)),
             errs |-> AppendIf(<<>>, ~m.ok, NewParseAttrError(a.Name.Local, FALSE))]
      [] OTHER -> [bag |-> bg, errs |-> <<>>]

\* objectAttrDecoder: the bag of the Object after the attribute, and the errors
objectAttrDecoder(bg, a) ==
    LET ext == GetObjectAttr(bg) IN
    CASE a.Name.Local = "slicestackid" ->
            LET p == ParseUint(a.Value) IN
            [bag |-> IF ext # 0 THEN [bg EXCEPT ![ext].SliceStackID = p.val]
                     ELSE Append(bg, SliceObjectAttr(p.val, "ResolutionFull")),
             errs |-> AppendIf(<<>>, p.err, NewParseAttrError(a.Name.Local, TRUE))]
      [] a.Name.Local = "meshresolution" ->
            LET m == newMeshResolution(a.Value) IN
            [bag |-> IF ext # 0 THEN [bg EXCEPT ![ext].MeshResolution = m.res]
                     ELSE Append(bg, SliceObjectAttr("0", m.res)),
             errs |-> AppendIf(<<>>, ~m.ok, NewParseAttrError(a.Name.Local, FALSE))]
      [] OTHER -> [bag |-> bg, errs |-> <<>>]

\* the attributes of the slice namespace an object element may carry
ObjectSliceAttrs ==
    {XmlAttr(Namespace, "slicestackid", v) : v \in {"1", "2", "x", "4294967296"}}
        \cup {XmlAttr(Namespace, "meshresolution", v) : v \in {"fullres", "lowres", "x"}}
        \cup {XmlAttr(Namespace, "other", "1")}

InitOa ==
    /\ oAnyAttr \in UNION {[1..n -> OtherObjectAttrs] : n \in 0..MaxOtherAttrs}
    /\ oBefore = oAnyAttr
    /\ oaDecoded = <<>>
    /\ oaErrs = <<>>

IdleOa ==
    /\ oAnyAttr = <<>>
    /\ oBefore = <<>>
    /\ oaDecoded = <<>>
    /\ oaErrs = <<>>

\* Spec.DecodeAttribute(o, a), o an Object
DecodeAttribute(a) ==
    /\ Len(oaDecoded) < MaxObjectAttrs
    /\ oAnyAttr' = objectAttrDecoder(oAnyAttr, a).bag
    /\ oaErrs' = objectAttrDecoder(oAnyAttr, a).errs
    /\ oaDecoded' = Append(oaDecoded, a)
    /\ UNCHANGED oBefore
    /\ UNCHANGED notOa

NextOa == \E a \in ObjectSliceAttrs : DecodeAttribute(a)

----------------------------------------------------------------------------
(* The steps of stl Decoder.Decode: isASCII and the mesh decoders *)

\* the lengths of the inputs, around the size of the header
StlLengths == {0, 1, sizeOfHeader - 1, sizeOfHeader, 2 * sizeOfHeader}

\* how the reader behaves once it delivered its bytes: it returns io.EOF; or
\* an error other than io.EOF on every Read; or such an error on one Read and
\* io.EOF after it
StlEndings == {"EOF", "failing", "failing once"}

\* the number of bytes one Read may deliver when left are left
ReadSizes(left) == {1, sizeOfHeader - 1, left} \cap 1..left

InitStl ==
    /\ stlReader \in [ending : StlEndings, left : StlLengths]
    /\ stlBuf = [avail |-> 0, err |-> "nil"]
    /\ stlPc = "peek"
    /\ stlRet = "none"

IdleStl ==
    /\ stlReader = [ending |-> "EOF", left |-> 0]
    /\ stlBuf = [avail |-> 0, err |-> "nil"]
    /\ stlPc = "idle"
    /\ stlRet = "none"

\* b.fill() in the loop of bufio.Reader.Peek: one Read of d.r, while fewer
\* than sizeOfHeader bytes are buffered and b.err is nil
PeekFill ==
    /\ stlPc = "peek"
    /\ stlBuf.avail < sizeOfHeader
    /\ stlBuf.err = "nil"
    /\ IF stlReader.left > 0
       THEN \E n \in ReadSizes(stlReader.left) :
                /\ stlBuf' = [stlBuf EXCEPT !.avail = @ + n]
                /\ stlReader' = [stlReader EXCEPT !.left = @ - n]
       ELSE /\ stlBuf' = [stlBuf EXCEPT !.err =
                            IF stlReader.ending = "EOF" THEN "EOF" ELSE "ErrClosed"]
            /\ stlReader' = [stlReader EXCEPT !.ending =
                            IF @ = "failing once" THEN "EOF" ELSE @]
    /\ UNCHANGED <<stlPc, stlRet>>
    /\ UNCHANGED notStl

\* buff, err := r.Peek(sizeOfHeader) returns, and the body of the loop of
\* isASCII: with io.EOF isASCII and Decode return it; with sizeOfHeader bytes
\* the loop ends; else the loop goes on
isASCIILoop ==
    /\ stlPc = "peek"
    /\ stlBuf.avail >= sizeOfHeader \/ stlBuf.err # "nil"
    /\ LET short == stlBuf.avail < sizeOfHeader
           err == IF short THEN stlBuf.err ELSE "nil"
       IN  /\ stlBuf' = IF short THEN [stlBuf EXCEPT !.err = "nil"] ELSE stlBuf
           /\ IF err = "EOF"
              THEN stlPc' = "returned" /\ stlRet' = "EOF"
              ELSE IF ~short
              THEN stlPc' = "decode" /\ stlRet' = stlRet
              ELSE stlPc' = "peek" /\ stlRet' = stlRet
    /\ UNCHANGED stlReader
    /\ UNCHANGED notStl

\* the ascii or the binary decoder reads the mesh and Decode returns its error
DecodeMesh ==
    /\ stlPc = "decode"
    /\ stlPc' = "returned"
    /\ stlRet' \in {"nil", "mesh"}
    /\ UNCHANGED <<stlReader, stlBuf>>
    /\ UNCHANGED notStl

NextStl ==
    \/ PeekFill
    \/ isASCIILoop
    \/ DecodeMesh

----------------------------------------------------------------------------
(* strToSRGB *)

\* the byte of a character
Ord(ch) ==
    CASE ch = " " -> 32 [] ch = "#" -> 35
      [] ch = "0" -> 48 [] ch = "1" -> 49 [] ch = "5" -> 53 [] ch = "6" -> 54
      [] ch = "7" -> 55 [] ch = "9" -> 57
      [] ch = "A" -> 65 [] ch = "B" -> 66 [] ch = "F" -> 70 [] ch = "G" -> 71
      [] ch = "a" -> 97 [] ch = "f" -> 102 [] ch = "g" -> 103

\* hexToByte: the byte it returns and whether it sets err
hexToByte(b) ==
    CASE b >= 48 /\ b <= 57 -> [v |-> b - 48, bad |-> FALSE]
      [] b >= 97 /\ b <= 102 -> [v |-> b - 97, bad |-> FALSE]
      [] b >= 65 /\ b <= 70 -> [v |-> b - 65, bad |-> FALSE]
      [] OTHER -> [v |-> 0, bad |-> TRUE]

\* hexToByte(s[i])<<4 + hexToByte(s[i+1]), in bytes; i counts from 0
Channel(s, i) ==
    (((hexToByte(Ord(s[i + 1])).v * 16) % 256) + hexToByte(Ord(s[i + 2])).v) % 256
ChannelBad(s, i) == hexToByte(Ord(s[i + 1])).bad \/ hexToByte(Ord(s[i + 2])).bad

RGBA(r, g, b, a) == [R |-> r, G |-> g, B |-> b, A |-> a]
errInvalidFormat == "gltf: invalid color format"

\* strToSRGB
strToSRGB(s) ==
    IF Len(s) = 0 \/ s[1] # "#" THEN [c |-> RGBA(0, 0, 0, 0), err |-> errInvalidFormat]
    ELSE CASE Len(s) = 9 ->
                [c |-> RGBA(Channel(s, 1), Channel(s, 3), Channel(s, 5), Channel(s, 7)),
                 err |-> IF \E i \in {1, 3, 5, 7} : ChannelBad(s, i)
                         THEN errInvalidFormat ELSE "nil"]
           [] Len(s) = 7 ->
                [c |-> RGBA(Channel(s, 1), Channel(s, 3), Channel(s, 5), 255),
                 err |-> IF \E i \in {1, 3, 5} : ChannelBad(s, i)
                         THEN errInvalidFormat ELSE "nil"]
           [] OTHER -> [c |-> RGBA(0, 0, 0, 0), err |-> errInvalidFormat]

\* the color texts: a first character or none, pairs of characters, and
\* what follows them, cut to a length
ColorPrefixes == {<<"#">>, <<>>, <<"0">>}
ColorPairs ==
    {<<"F", "F">>, <<"1", "A">>, <<"B", "5">>, <<"6", "7">>, <<"0", "0">>,
     <<"a", "9">>, <<"f", "g">>, <<" ", "1">>, <<"G", "0">>}
ColorTails == {<<>>, <<"1">>, <<"F", "F", "0">>} \cup ColorPairs
Cut(s, n) == SubSeq(s, 1, IF n < Len(s) THEN n ELSE Len(s))

InitColor ==
    /\ \E first \in ColorPrefixes, r \in ColorPairs, g \in ColorPairs, b \in ColorPairs,
          t \in ColorTails, n \in 0..MaxColorLen :
            colorIn = Cut(first \o r \o g \o b \o t, n)
    /\ colorRet = [op |-> "none"]

IdleColor ==
    /\ colorIn = <<>>
    /\ colorRet = [op |-> "idle"]

\* c, err := strToSRGB(s)
CallStrToSRGB ==
    /\ colorRet.op = "none"
    /\ colorRet' = [op |-> "strToSRGB", c |-> strToSRGB(colorIn).c,
                    err |-> strToSRGB(colorIn).err]
    /\ UNCHANGED colorIn
    /\ UNCHANGED notColor

NextColor == CallStrToSRGB

----------------------------------------------------------------------------
(* Specifications *)

InitSpecRes == InitRes /\ IdleReg /\ IdleDec /\ IdleRd /\ IdleRt /\ IdleBag /\ IdleVal /\ IdleMesh /\ IdleMf /\ IdleOa /\ IdleStl /\ IdleColor
SpecRes == InitSpecRes /\ [][NextRes]_vars

InitSpecReg == InitReg /\ IdleRes /\ IdleDec /\ IdleRd /\ IdleRt /\ IdleBag /\ IdleVal /\ IdleMesh /\ IdleMf /\ IdleOa /\ IdleStl /\ IdleColor
SpecReg == InitSpecReg /\ [][NextReg]_vars

InitSpecDec == InitDec /\ IdleRes /\ IdleReg /\ IdleRd /\ IdleRt /\ IdleBag /\ IdleVal /\ IdleMesh /\ IdleMf /\ IdleOa /\ IdleStl /\ IdleColor
SpecDec == InitSpecDec /\ [][NextDec]_vars

InitSpecRd == InitRd /\ IdleRes /\ IdleReg /\ IdleDec /\ IdleRt /\ IdleBag /\ IdleVal /\ IdleMesh /\ IdleMf /\ IdleOa /\ IdleStl /\ IdleColor
SpecRd == InitSpecRd /\ [][NextRd]_vars

InitSpecRT == InitRt /\ IdleRes /\ IdleReg /\ IdleDec /\ IdleRd /\ IdleBag /\ IdleVal /\ IdleMesh /\ IdleMf /\ IdleOa /\ IdleStl /\ IdleColor
SpecRT == InitSpecRT /\ [][NextRt]_vars

InitSpecBag == InitBag /\ IdleRes /\ IdleReg /\ IdleDec /\ IdleRd /\ IdleRt /\ IdleVal /\ IdleMesh /\ IdleMf /\ IdleOa /\ IdleStl /\ IdleColor
SpecBag == InitSpecBag /\ [][NextBag]_vars

InitSpecVal == InitVal /\ IdleRes /\ IdleReg /\ IdleDec /\ IdleRd /\ IdleRt /\ IdleBag /\ IdleMesh /\ IdleMf /\ IdleOa /\ IdleStl /\ IdleColor
SpecVal == InitSpecVal /\ [][NextVal]_vars

InitSpecFind == InitFind /\ IdleRes /\ IdleReg /\ IdleDec /\ IdleRd /\ IdleRt /\ IdleBag /\ IdleMesh /\ IdleMf /\ IdleOa /\ IdleStl /\ IdleColor
SpecFind == InitSpecFind /\ [][NextFind]_vars

InitSpecMesh == InitMesh /\ IdleRes /\ IdleReg /\ IdleDec /\ IdleRd /\ IdleRt /\ IdleBag /\ IdleVal /\ IdleMf /\ IdleOa /\ IdleStl /\ IdleColor
SpecMesh == InitSpecMesh /\ [][NextMesh]_vars

InitSpecMf == InitMf /\ IdleRes /\ IdleReg /\ IdleDec /\ IdleRd /\ IdleRt /\ IdleBag /\ IdleVal /\ IdleMesh /\ IdleOa /\ IdleStl /\ IdleColor
SpecMf == InitSpecMf /\ [][NextMf]_vars

InitSpecOa == InitOa /\ IdleRes /\ IdleReg /\ IdleDec /\ IdleRd /\ IdleRt /\ IdleBag /\ IdleVal /\ IdleMesh /\ IdleMf /\ IdleStl /\ IdleColor
SpecOa == InitSpecOa /\ [][NextOa]_vars

InitSpecStl == InitStl /\ IdleRes /\ IdleReg /\ IdleDec /\ IdleRd /\ IdleRt /\ IdleBag /\ IdleVal /\ IdleMesh /\ IdleMf /\ IdleOa /\ IdleColor
SpecStl == InitSpecStl /\ [][NextStl]_vars
\* Decode runs in the caller's goroutine, which goes on while it has a step
SpecStlLive == SpecStl /\ WF_vars(NextStl)

InitSpecColor == InitColor /\ IdleRes /\ IdleReg /\ IdleDec /\ IdleRd /\ IdleRt /\ IdleBag /\ IdleVal /\ IdleMesh /\ IdleMf /\ IdleOa /\ IdleStl
SpecColor == InitSpecColor /\ [][NextColor]_vars

----------------------------------------------------------------------------
(* Claims on Resources *)

UsedIDs == SeqToSet(assets) \cup SeqToSet(objects)

\* the smallest positive integer that is the ID of no asset and no object
LowestUnused == CHOOSE n \in 1..(MaxRes + MaxID + 2) :
                    /\ n \notin UsedIDs
                    /\ \A k \in 1..(n - 1) : k \in UsedIDs

\* C1: UnusedID() is the smallest positive integer that is not the ID of any
\* asset or object (the first gap, or one past the maximum).
C1_UnusedIDIsLowest == UnusedID(assets, objects) = LowestUnused

\* C2: from pairwise distinct IDs, a step that allocates UnusedID() and appends
\* an object with it (the STL importer) leaves the IDs pairwise distinct.
C2_ImportKeepsIDsDistinct ==
    [][ (IsDistinctSeq(assets \o objects) /\ resOp'[1] = "stl")
            => IsDistinctSeq(assets' \o objects') ]_vars

\* C22: a successful STL Decode appends one object, whose ID is UnusedID() of
\* the resources before the call (1 when there are none), and one build item
\* with that object ID, and leaves the assets and the earlier objects and
\* items as they were; a failed Decode leaves resources and build unchanged.
C22_StlDecodeFrame ==
    [][StlDecode =>
        IF stlErr' = "nil"
        THEN /\ objects' = Append(objects, UnusedID(assets, objects))
             /\ items' = Append(items, UnusedID(assets, objects))
             /\ assets' = assets
             /\ (assets = <<>> /\ objects = <<>>) => objects' = <<1>> /\ items'[Len(items')] = 1
        ELSE /\ stlErr' \in {"header", "mesh"}
             /\ UNCHANGED <<assets, objects, items>>]_vars

\* an STL file has been decoded into a Model that had an asset, an object and
\* a build item
C22_Witness ==
    /\ resOp[1] = "stl"
    /\ stlErr = "nil"
    /\ Len(assets) >= 1
    /\ Len(objects) >= 2
    /\ Len(items) >= 2
    /\ items[Len(items)] = objects[Len(objects)]

----------------------------------------------------------------------------
(* Claims on the registry *)

\* the Register call of p names a namespace that was registered when it got
\* the lock, or passes a nil spec
RegisterMustFail(p) ==
    /\ call[p].op = "Register"
    /\ (call[p].ns \in DOMAIN pre[p] \/ call[p].spec = NilSpec)

\* C3: Register panics when the namespace is already registered or the spec is
\* nil, and the registry then keeps the content it had before the call.
C3_RegisterRejects ==
    \A p \in Procs :
        /\ (pc[p] = "reg_unlock" /\ RegisterMustFail(p)) => specs = pre[p]
        /\ (ret[p].kind = "returned" /\ RegisterMustFail(p)) => FALSE

InWrite(p) == pc[p] \in {"reg_store", "reg_unlock"}
InRead(p) == pc[p] \in {"load_read", "load_runlock"}

\* the table is never read while a Register writes it, never written by two
\* Registers at once
RegistryExclusion ==
    \A p, q \in Procs :
        (p # q /\ InWrite(p)) => ~(InWrite(q) \/ InRead(q))

\* the Register calls of namespace ns that had completed when p read the map
CompletedFor(p) == {r \in completed[p] : r[1] = call[p].ns}

\* Register has only been called as documented: never with a nil spec, never
\* twice for a namespace
RegisteredAsDocumented ==
    \A r1, r2 \in registered :
        r1[2] # NilSpec /\ (r1[1] = r2[1] => r1 = r2)

\* C4 (as stated): exclusion, and every lookup of ns returns not-found if no
\* Register(ns, _) completed before it, otherwise the implementation stored by
\* a completed Register(ns, _).  Stated over the registries filled as
\* documented, so that a violation does not rest on what Register accepts.
C4_LookupReturnsStored ==
    RegisteredAsDocumented =>
        /\ RegistryExclusion
        /\ \A p \in Procs :
            ret[p].kind = "lookup" =>
                IF CompletedFor(p) = {} THEN ~ret[p].ok
                ELSE ret[p].ok /\ <<call[p].ns, ret[p].ext>> \in CompletedFor(p)

\* C4 (amended): exclusion; loadExtension returns not-found if no
\* Register(ns, _) completed before it, otherwise the implementation stored by
\* a completed Register(ns, _); loadValidator returns that implementation only
\* if it implements the validation hook, and not-found if it does not.
C4_LookupReturnsStoredOrNoValidator ==
    /\ RegistryExclusion
    /\ \A p \in Procs :
        ret[p].kind = "lookup" =>
            IF CompletedFor(p) = {} THEN ~ret[p].ok
            ELSE \E r \in CompletedFor(p) :
                    IF call[p].op = "loadValidator" /\ ~IsValidateSpec(r[2])
                    THEN ~ret[p].ok
                    ELSE ret[p].ok /\ ret[p].ext = r[2]

\* two lookups hold the read lock at once, and one of them has read a
\* registered implementation from the table
C4_Witness ==
    \E p, q \in Procs :
        /\ p # q
        /\ pc[p] = "load_runlock" /\ local[p].ok
        /\ InRead(q)


----------------------------------------------------------------------------
(* Claims on the streaming decoder *)

\* C5: when the current decoder has no child decoder for the start tag read
\* (and the element is well-formed), the whole subtree is read without any
\* hook being invoked, no error and no diagnostic is produced, and the
\* decoder stack, the name stack and the current decoder are as before the
\* element, so what follows it is decoded as if it were absent.
C5_UnknownElementSkipped ==
    [][ ( /\ derr = "nil"
          /\ lastStep'.op \in {"start", "skip"}
          /\ Child(currentDecoder, lastStep'.name) = NoDecoder )
        => ( /\ pending' = <<>>
             /\ xopen' = xopen
             /\ hookLog' = hookLog
             /\ derr' = "nil"
             /\ warnings' = warnings
             /\ dAssets' = dAssets
             /\ state' = state
             /\ names' = names
             /\ currentDecoder' = currentDecoder
             /\ currentName' = currentName ) ]_vars

\* an element in an unregistered namespace, named like a child the slice
\* stack decoder knows, has just been skipped inside a slice stack
C5_Witness ==
    /\ lastStep.op = "skip"
    /\ lastStep.name = XmlName(nsUnknown, "slice")
    /\ currentDecoder.kind = "slicestack"
    /\ Len(state) = 3
    /\ derr = "nil"

\* every decoder on the stack and the current one
Frames == Append(state, currentDecoder)

\* the slice stacks and slices decoded or being decoded
AllSliceStacks ==
    {dAssets[i] : i \in 1..Len(dAssets)}
        \cup {Frames[i].ent : i \in {j \in 1..Len(Frames) : Frames[j].kind = "slicestack"}}
AllSlices ==
    UNION {{s.Slices[i] : i \in 1..Len(s.Slices)} : s \in AllSliceStacks}
        \cup {Frames[i].ent : i \in {j \in 1..Len(Frames) : Frames[j].kind = "slice"}}
AllPolygons == UNION {{s.Polygons[i] : i \in 1..Len(s.Polygons)} : s \in AllSlices}

\* the 0-based position of every entity that is in its parent's collection
PositionsIn(coll) == {[eid |-> coll[i].eid, index |-> i - 1] : i \in 1..Len(coll)}
Placed ==
    PositionsIn(dAssets)
        \cup UNION {PositionsIn(s.Slices) \cup PositionsIn(s.Refs) : s \in AllSliceStacks}
        \cup UNION {PositionsIn(s.Vertices) \cup PositionsIn(s.Polygons) : s \in AllSlices}
        \cup UNION {PositionsIn(p.Segments) : p \in AllPolygons}

\* the elements whose end tag has been decoded
Closed == {hookLog[i][2] : i \in {j \in 1..Len(hookLog) : hookLog[j][1] = "end"}}

\* the field an attribute is decoded into
FieldOf(ent, name) ==
    CASE name = "id" -> ent.ID
      [] name = "zbottom" -> ent.BottomZ
      [] name = "ztop" -> ent.TopZ
      [] name = "slicestackid" -> ent.SliceStackID
      [] name = "x" -> ent.x
      [] name = "y" -> ent.y
      [] name = "startv" -> ent.StartV
      [] name = "v2" -> ent.V2
      [] name = "pid" -> ent.PID
      [] name = "p1" -> ent.P1
      [] OTHER -> ent.P2

\* the attributes of the start tag just decoded whose value does not parse
InvalidAttrs ==
    {lastStep.attrs[i] : i \in {j \in 1..Len(lastStep.attrs) :
                                  IsInvalidAttr(lastStep.kind, lastStep.attrs[j])}}

\* the innermost path segment of a diagnostic
LastSegment(w) == w.path[Len(w.path)]

\* C6: a start tag with an attribute value that does not parse never aborts
\* the decode: a diagnostic naming the attribute is recorded for the element,
\* the field takes its zero value, decoding continues inside the element, and
\* the element is in its parent's collection once it is closed.
C6_InvalidAttributeTolerated ==
    /\ (lastStep.op = "start" /\ InvalidAttrs # {}) =>
          /\ derr = "nil"
          /\ currentDecoder.kind = lastStep.kind
          /\ \A a \in InvalidAttrs :
                /\ \E i \in 1..Len(warnings) :
                      /\ warnings[i].name = a.Name.Local
                      /\ LastSegment(warnings[i]).eid = lastStep.eid
                /\ FieldOf(lastStep.res.ent, a.Name.Local) = "0"
    /\ \A i \in 1..Len(warnings) :
          LET seg == LastSegment(warnings[i]) IN
          (seg.eid \in Closed \/ seg.kind \notin {"SliceStack", "Slice"})
              => \E p \in Placed : p.eid = seg.eid

\* the attributes of a list that the element of the kind defines
KnownOnly(kind, attrs) ==
    LET IsKnown(a) == ~IsUnknownAttr(kind, a) IN SelectSeq(attrs, IsKnown)

\* C8: an attribute the element does not define, or one in an unregistered
\* namespace, is ignored: the Start hook returns the errors and builds the
\* entity it returns and builds for the list without that attribute.
C8_UnknownAttributeIgnored ==
    lastStep.op = "start" =>
        lastStep.res = AttrsResult(lastStep.kind,
                                   KnownOnly(lastStep.kind, lastStep.attrs),
                                   lastStep.eid)

\* the path segments of the recorded diagnostics
Segments ==
    UNION {{warnings[i].path[k] : k \in 1..Len(warnings[i].path)} : i \in 1..Len(warnings)}

\* C9: every <Kind>#<Index> segment of a recorded diagnostic carries the
\* 0-based position its entity has in its parent's collection: from the
\* moment the entity is appended, be it by the Start or by the End hook, and
\* for every segment once the document is decoded.
C9_DiagnosticIndexIsPosition ==
    /\ \A seg \in Segments : \A p \in Placed :
          p.eid = seg.eid => p.index = seg.index
    /\ derr = "EOF" =>
          \A seg \in Segments : \E p \in Placed : p.eid = seg.eid

\* a decoded document with a diagnostic two levels deep, on the second entity
\* of a collection
C9_Witness ==
    /\ derr = "EOF"
    /\ \E i \in 1..Len(warnings) :
          /\ Len(warnings[i].path) >= 2
          /\ LastSegment(warnings[i]).index >= 1
          /\ \E p \in Placed : p.eid = LastSegment(warnings[i]).eid

\* C21: after a document is decoded, no two of its resources have the same
\* numeric ID.
C21_IDsUniqueInDocument ==
    derr = "EOF" =>
        \A i, j \in 1..Len(dAssets) : i # j => dAssets[i].ID # dAssets[j].ID

\* the recognised elements open after the first i hook calls, the innermost
\* last
RECURSIVE OpenAfter(_, _)
OpenAfter(log, i) ==
    IF i = 0 THEN <<>>
    ELSE LET s == OpenAfter(log, i - 1) IN
         CASE log[i][1] = "start" -> Append(s, log[i][2])
           [] log[i][1] = "end" -> SubSeq(s, 1, Len(s) - 1)
           [] OTHER -> s

\* the element the hooks of the innermost open decoder belong to; 0 is the
\* top-level decoder's
Innermost(s) == IF s = <<>> THEN 0 ELSE s[Len(s)]

----------------------------------------------------------------------------
(* Claims on the package reader *)

\* the document whose decode ended Reader.Decode with an error is the last
\* one decoded
StoppedAtFailure ==
    \/ rdErr = "no root model" /\ decoded = <<>>
    \/ /\ rdErr = "syntax"
       /\ decoded # <<>>
       /\ LET last == decoded[Len(decoded)] IN
          IF last = 0 THEN pkg.root.err = "syntax" ELSE pkg.children[last].err = "syntax"

\* C7: when Reader.Decode returns a terminal error (no root model, or a
\* malformed root or child document), no later document has been decoded and
\* the Model holds no resources and the Reader no warnings of any document.
C7_NoPartialModelOnError ==
    (rdPc = "done" /\ rdErr # "nil") =>
        /\ StoppedAtFailure
        /\ mResources = <<>>
        /\ rWarnings = <<>>

\* the result of the decode of a document: 0 is the root, i the child i
DocResult(doc) == IF doc = 0 THEN pkg.root ELSE pkg.children[doc]

\* the resources, and the warnings, of the first n documents of docs that
\* decoded to the end of their input, document after document
RECURSIVE MergedResources(_, _)
MergedResources(docs, n) ==
    IF n = 0 THEN <<>>
    ELSE MergedResources(docs, n - 1) \o
         (IF DocResult(docs[n]).err = "EOF"
          THEN fileResources(docs[n], DocResult(docs[n])) ELSE <<>>)
RECURSIVE MergedWarnings(_, _)
MergedWarnings(docs, n) ==
    IF n = 0 THEN <<>>
    ELSE MergedWarnings(docs, n - 1) \o
         (IF DocResult(docs[n]).err = "EOF"
          THEN fileWarnings(docs[n], DocResult(docs[n])) ELSE <<>>)

\* the documents are decoded from the last child to the first, the root last
InReverseOrder ==
    \A k \in 1..Len(decoded) :
        decoded[k] = (IF k <= Len(pkg.children) THEN Len(pkg.children) - k + 1 ELSE 0)

\* a step that changes the Model's resources or the Reader's warnings merges
\* one whole document, the one decoded in this step
OneMergePerStep ==
    (mResources' # mResources \/ rWarnings' # rWarnings) =>
        \E doc \in 0..MaxChildren :
            /\ decoded' = Append(decoded, doc)
            /\ mResources' = mResources \o fileResources(doc, DocResult(doc))
            /\ rWarnings' = rWarnings \o fileWarnings(doc, DocResult(doc))

\* C25: the Model's resources and the Reader's warnings are those of the
\* documents decoded so far, each once and in its own order, the children from
\* the last to the first and the root after all of them; a step merges one
\* whole document; after a successful Decode every document is merged.
C25_MergeOrder ==
    /\ [](/\ InReverseOrder
          /\ mResources = MergedResources(decoded, Len(decoded))
          /\ rWarnings = MergedWarnings(decoded, Len(decoded))
          /\ (rdPc = "done" /\ rdErr = "nil") =>
                /\ Len(decoded) = Len(pkg.children) + 1
                /\ \A doc \in 0..Len(pkg.children) :
                      /\ \A k \in 1..DocResult(doc).resources :
                            \E i \in 1..Len(mResources) :
                                /\ mResources[i] = <<doc, "resource", k>>
                                /\ \A j \in 1..Len(mResources) :
                                      mResources[j] = mResources[i] => j = i
                                /\ k > 1 => mResources[i - 1] = <<doc, "resource", k - 1>>
                      /\ \A k \in 1..DocResult(doc).warnings :
                            \E i \in 1..Len(rWarnings) :
                                /\ rWarnings[i] = <<doc, "warning", k>>
                                /\ \A j \in 1..Len(rWarnings) :
                                      rWarnings[j] = rWarnings[i] => j = i)
    /\ [][OneMergePerStep]_vars

\* a package with two children and resources and a warning in every document
\* decoded without error
C25_Witness ==
    /\ rdPc = "done" /\ rdErr = "nil"
    /\ Len(pkg.children) = 2
    /\ decoded = <<2, 1, 0>>
    /\ pkg.root.resources = 2 /\ pkg.root.warnings = 1
    /\ \A i \in 1..2 : pkg.children[i].resources >= 1 /\ pkg.children[i].warnings = 1
    /\ Len(mResources) >= 4 /\ Len(rWarnings) = 3

----------------------------------------------------------------------------
(* Claims on the round trip *)

\* every marshal hook of the Model succeeds
HooksSucceed(m) ==
    \A i \in 1..Len(m.Objects) : \A j \in 1..Len(m.Objects[i].Any) : m.Objects[i].Any[j].ok

\* C10: for a Model of registered extensions, whose marshal hooks all
\* succeed, decoding the encoded Model yields a Model equal to it: the same
\* assets in the same order, the same extension attribute entries and
\* extension elements, the same build items.
C10_RoundTrip ==
    (rtPc = "done" /\ HooksSucceed(rtModel)) => newModel = rtModel

----------------------------------------------------------------------------
(* Claims on the extension bags *)

\* what every element of a bag contributes, in insertion order, when every
\* hook is invoked
RECURSIVE AllElements(_, _)
AllElements(e, i) ==
    IF i > Len(e) THEN <<>> ELSE Marshal3MF(e[i]).out \o AllElements(e, i + 1)
RECURSIVE AllAttributes(_, _)
AllAttributes(e, i) ==
    IF i > Len(e) THEN <<>> ELSE MarshalAttrHook(e[i]).attrs \o AllAttributes(e, i + 1)

\* C11: encoding a bag invokes the marshal hook of every element, in
\* insertion order, and emits each contribution; when the hook of an element
\* fails, the encoding returns an error.
C11_BagEncodedWhole ==
    /\ bagOp.op = "Extension.encode" =>
          IF \A i \in 1..Len(bag) : bag[i].ok
          THEN /\ bagRes.calls = Len(bag)
               /\ bagRes.out = AllElements(bag, 1)
               /\ ~bagRes.err
          ELSE bagRes.err
    /\ bagOp.op = "AnyAttr.encode" =>
          IF \A i \in 1..Len(attrBag) : attrBag[i].ok
          THEN /\ bagRes.calls = Len(attrBag)
               /\ bagRes.out = AllAttributes(attrBag, 1)
               /\ ~bagRes.err
          ELSE bagRes.err

----------------------------------------------------------------------------
(* Claims on the validation *)

\* the documents of a Model, the root under the name "", their assets and
\* the path their references are resolved with
DocsOf(m) == {""} \cup DOMAIN m.Childs
DocAssets(m, d) == IF d = "" THEN m.Resources.Assets ELSE m.Childs[d].Resources.Assets
DocPath(m, d) == IF d = "" THEN PathOrDefault(m) ELSE d

\* what a diagnostic says apart from its document and its asset: the error
\* and the position inside the asset
Bare(e, from) ==
    [msg |-> e.msg, name |-> e.name, sub |-> SubSeq(e.path, from, Len(e.path))]

\* the failed checks of the asset at position i of document d, in the order
\* of the checks
FailedChecks(m, d, i) ==
    LET a == DocAssets(m, d)[i]
        errs == (IF a.ID = 0 THEN <<NewError("ErrMissingID")>> ELSE <<>>)
                    \o validateAsset(m, DocPath(m, d), a)
    IN [j \in 1..Len(errs) |-> Bare(errs[j], 1)]

\* the diagnostics of a result that are positioned at that asset
Reported(errs, m, d, i) ==
    LET es == SelectSeq(errs, LAMBDA e : /\ e.doc = d
                                         /\ e.path[2].index = i - 1
                                         /\ e.path[2].kind = DocAssets(m, d)[i].kind)
    IN [j \in 1..Len(es) |-> Bare(es[j], 3)]

\* C12: the result of Model.Validate holds, for every asset of the root and
\* of every child, every failed check of the asset in the order of the
\* checks, and nothing else; the diagnostics of one document are contiguous
\* and ordered by the asset's position; it is nil exactly when no check fails.
C12_ValidateReportsAll ==
    valOp.op = "Validate" =>
        /\ \A d \in DocsOf(valModel) : \A i \in 1..Len(DocAssets(valModel, d)) :
              Reported(valErrs, valModel, d, i) = FailedChecks(valModel, d, i)
        /\ \A j \in 1..Len(valErrs) :
              /\ valErrs[j].doc \in DocsOf(valModel)
              /\ valErrs[j].path[1].kind = "Resources"
              /\ valErrs[j].path[2].index + 1 \in 1..Len(DocAssets(valModel, valErrs[j].doc))
              /\ valErrs[j].path[2].kind =
                    DocAssets(valModel, valErrs[j].doc)[valErrs[j].path[2].index + 1].kind
        /\ \A a, b \in 1..Len(valErrs) :
              a < b /\ valErrs[a].doc = valErrs[b].doc =>
                  /\ valErrs[a].path[2].index <= valErrs[b].path[2].index
                  /\ \A c \in a..b : valErrs[c].doc = valErrs[a].doc
        /\ (valErrs = <<>>) <=>
              \A d \in DocsOf(valModel) : \A i \in 1..Len(DocAssets(valModel, d)) :
                  FailedChecks(valModel, d, i) = <<>>

\* a Model is validated in which two documents have failing assets, one
\* document has two failing assets, and one asset fails several checks
C12_Witness ==
    /\ valOp.op = "Validate"
    /\ \E d1, d2 \in DocsOf(valModel) :
          /\ d1 # d2
          /\ \E i \in 1..Len(DocAssets(valModel, d1)) :
                Reported(valErrs, valModel, d1, i) # <<>>
          /\ \E i, k \in 1..Len(DocAssets(valModel, d2)) :
                /\ i < k
                /\ Reported(valErrs, valModel, d2, i) # <<>>
                /\ Len(Reported(valErrs, valModel, d2, k)) >= 2

\* the positions (d, i) of the assets of one kind in a Model
AssetsOfKind(m, kind) ==
    UNION {{<<d, i>> : i \in {k \in 1..Len(DocAssets(m, d)) : DocAssets(m, d)[k].kind = kind}}
           : d \in DocsOf(m)}

\* the asset that an ID names in document d, and the length of the list a
\* property ID refers to: -1 when the ID names no asset with such a list
Named(m, d, id) ==
    LET as == DocAssets(m, d)
        is == {i \in 1..Len(as) : as[i].ID = id}
    IN IF is = {} THEN [kind |-> "nil", ID |-> 0]
       ELSE as[CHOOSE i \in is : \A k \in is : i <= k]
ListLength(a) ==
    CASE a.kind = "BaseMaterials" -> a.Materials
      [] a.kind = "CompositeMaterials" -> a.Composites
      [] a.kind = "ColorGroup" -> Len(a.Colors)
      [] OTHER -> -1

\* the diagnostics of asset i of document d that are positioned at entry j of
\* kind sub, and those positioned at the asset itself
ReportedAt(errs, m, d, i, sub, j) ==
    SelectSeq(Reported(errs, m, d, i),
              LAMBDA e : e.sub = <<[kind |-> sub, index |-> j, eid |-> 0]>>)
ReportedAtAsset(errs, m, d, i, msg) ==
    SelectSeq(Reported(errs, m, d, i), LAMBDA e : e.sub = <<>> /\ e.msg = msg)

\* C13: for every combination entry j of a multi-properties asset: when some
\* slot k below the number of property IDs holds an index that is not below
\* the length of the list property ID k refers to, exactly one out-of-bounds
\* diagnostic is positioned at Multi#j; when every such slot is a valid
\* position, none is.
C13_MultiIndexInBounds ==
    valOp.op = "Validate" =>
        \A p \in AssetsOfKind(valModel, "MultiProperties") :
            LET r == DocAssets(valModel, p[1])[p[2]]
                len(k) == ListLength(Named(valModel, p[1], r.PIDs[k]))
            IN \A j \in 1..Len(r.Multis) :
                LET slots == {k \in 1..Len(r.Multis[j]) : k <= Len(r.PIDs)}
                    n == Len(ReportedAt(valErrs, valModel, p[1], p[2], "Multi", j - 1))
                IN /\ (\E k \in slots : len(k) >= 0 /\ r.Multis[j][k] >= len(k)) => n = 1
                   /\ (\A k \in slots : len(k) >= 0 /\ r.Multis[j][k] < len(k)) => n = 0

\* C14: for a composite-materials asset with a non-zero material ID: a
\* missing-resource diagnostic when the ID names no asset of its document, a
\* wrong-kind diagnostic when it names an asset that is not a base-materials
\* group, exactly one out-of-bounds diagnostic when some index is not below
\* the number of materials of the group; otherwise none of the three.
C14_CompositeReferences ==
    valOp.op = "Validate" =>
        \A p \in AssetsOfKind(valModel, "CompositeMaterials") :
            LET r == DocAssets(valModel, p[1])[p[2]]
                mat == Named(valModel, p[1], r.MaterialID)
                n(msg) == Len(ReportedAtAsset(valErrs, valModel, p[1], p[2], msg))
                missing == mat.kind = "nil"
                wrong == ~missing /\ mat.kind # "BaseMaterials"
                out == /\ mat.kind = "BaseMaterials"
                       /\ \E i \in 1..Len(r.Indices) : r.Indices[i] >= mat.Materials
            IN r.MaterialID # 0 =>
                /\ n("ErrMissingResource") = (IF missing THEN 1 ELSE 0)
                /\ n("ErrCompositeBase") = (IF wrong THEN 1 ELSE 0)
                /\ n("ErrIndexOutOfBounds") = (IF out THEN 1 ELSE 0)

\* C15: for every color group: an empty-resource diagnostic exactly when it
\* has no color; for every position j exactly one missing-color diagnostic
\* at RGBA#j when the color there is the zero value and none otherwise; a
\* group with a non-zero ID and only non-zero colors, at least one, has no
\* diagnostic.
C15_ColorGroupChecks ==
    valOp.op = "Validate" =>
        \A p \in AssetsOfKind(valModel, "ColorGroup") :
            LET r == DocAssets(valModel, p[1])[p[2]]
                all == Reported(valErrs, valModel, p[1], p[2])
                empty == ReportedAtAsset(valErrs, valModel, p[1], p[2], "ErrEmptyResourceProps")
                at(j) == ReportedAt(valErrs, valModel, p[1], p[2], "RGBA", j - 1)
            IN /\ Len(empty) = (IF Len(r.Colors) = 0 THEN 1 ELSE 0)
               /\ \A j \in 1..Len(r.Colors) :
                     IF r.Colors[j] = ZeroRGBA
                     THEN /\ Len(at(j)) = 1
                          /\ at(j)[1].msg = "MissingFieldError"
                          /\ at(j)[1].name = "attrColor"
                     ELSE at(j) = <<>>
               /\ (/\ r.ID # 0
                   /\ Len(r.Colors) > 0
                   /\ \A j \in 1..Len(r.Colors) : r.Colors[j] # ZeroRGBA) => all = <<>>

\* a color group with a non-zero color followed by a zero color is validated
\* in a child document, and one without colors in another document
C15_Witness ==
    /\ valOp.op = "Validate"
    /\ \E p, q \in AssetsOfKind(valModel, "ColorGroup") :
          LET r == DocAssets(valModel, p[1])[p[2]] IN
          /\ p[1] # q[1]
          /\ r.Colors = <<"RGBA{1}", ZeroRGBA>>
          /\ Len(ReportedAt(valErrs, valModel, p[1], p[2], "RGBA", 1)) = 1
          /\ DocAssets(valModel, q[1])[q[2]].Colors = <<>>
          /\ Len(Reported(valErrs, valModel, q[1], q[2])) = 1

\* C16: a multi-properties asset with N property IDs has a blend-count
\* diagnostic exactly when it has more than N-1 blend methods; without
\* property IDs it has one even with no blend method.
C16_BlendCount ==
    valOp.op = "Validate" =>
        \A p \in AssetsOfKind(valModel, "MultiProperties") :
            LET r == DocAssets(valModel, p[1])[p[2]]
                n == Len(ReportedAtAsset(valErrs, valModel, p[1], p[2], "ErrMultiBlend"))
            IN /\ n = (IF r.BlendMethods > Len(r.PIDs) - 1 THEN 1 ELSE 0)
               /\ Len(r.PIDs) = 0 => n = 1
               /\ Len(r.PIDs) = 2 /\ r.BlendMethods = 2 => n = 1
               /\ Len(r.PIDs) = 2 /\ r.BlendMethods \in {0, 1} => n = 0

\* a multi-properties asset with two property IDs and two blend methods is
\* validated and reported, next to one with one property ID and no blend
\* method that is not
C16_Witness ==
    /\ valOp.op = "Validate"
    /\ \E p, q \in AssetsOfKind(valModel, "MultiProperties") :
          LET r == DocAssets(valModel, p[1])[p[2]]
              s == DocAssets(valModel, q[1])[q[2]]
          IN /\ Len(r.PIDs) = 2 /\ r.BlendMethods = 2
             /\ Len(ReportedAtAsset(valErrs, valModel, p[1], p[2], "ErrMultiBlend")) = 1
             /\ Len(s.PIDs) = 1 /\ s.BlendMethods = 0
             /\ ReportedAtAsset(valErrs, valModel, q[1], q[2], "ErrMultiBlend") = <<>>

\* the number of elements of a sequence that satisfy a test
Count(s, Test(_)) == Len(SelectSeq(s, Test))

\* C17: the IDs an asset refers to (texture ID, base-material ID, property
\* IDs) are resolved against the assets of the asset's own document only, and
\* the diagnostics of an asset of a child document carry the document's path,
\* those of an asset of the root document none.
C17_ReferencesWithinDocument ==
    valOp.op = "Validate" =>
        \A d \in DocsOf(valModel) : \A i \in 1..Len(DocAssets(valModel, d)) :
            LET r == DocAssets(valModel, d)[i]
                n(msg) == Len(ReportedAtAsset(valErrs, valModel, d, i, msg))
                kindOf(id) == Named(valModel, d, id).kind
            IN /\ r.kind = "Texture2DGroup" /\ r.TextureID # 0 =>
                     n("ErrTextureReference") =
                        (IF kindOf(r.TextureID) = "Texture2D" THEN 0 ELSE 1)
               /\ r.kind = "CompositeMaterials" /\ r.MaterialID # 0 =>
                     /\ n("ErrMissingResource") =
                           (IF kindOf(r.MaterialID) = "nil" THEN 1 ELSE 0)
                     /\ n("ErrCompositeBase") =
                           (IF kindOf(r.MaterialID) \in {"nil", "BaseMaterials"} THEN 0 ELSE 1)
               /\ r.kind = "MultiProperties" =>
                     /\ n("ErrMissingResource") =
                           (IF \E k \in 1..Len(r.PIDs) : kindOf(r.PIDs[k]) = "nil"
                            THEN 1 ELSE 0)
                     /\ n("ErrMultiRefMulti") =
                           Count(r.PIDs, LAMBDA id : kindOf(id) = "MultiProperties")
               /\ Len(SelectSeq(valErrs, LAMBDA e : e.doc = d /\ e.path[2].index = i - 1))
                     = Len(FailedChecks(valModel, d, i))

\* an asset of a child document refers to an ID that its document does not
\* have and another document has, and is reported under the child's path
C17_Witness ==
    /\ valOp.op = "Validate"
    /\ \E p \in AssetsOfKind(valModel, "CompositeMaterials") :
          LET r == DocAssets(valModel, p[1])[p[2]] IN
          /\ p[1] # ""
          /\ r.MaterialID # 0
          /\ Named(valModel, p[1], r.MaterialID).kind = "nil"
          /\ \E d \in DocsOf(valModel) : Named(valModel, d, r.MaterialID).kind = "BaseMaterials"
          /\ \E j \in 1..Len(valErrs) :
                /\ valErrs[j].doc = p[1]
                /\ valErrs[j].path[2].index = p[2] - 1
                /\ valErrs[j].msg = "ErrMissingResource"

\* C28: Validate, with the validators of every asset it calls, leaves the
\* Model as it was: its path, attachments, resources and child documents; the
\* diagnostics are those of the Model as it still is.
C28_ValidateReadOnly ==
    [][Validate =>
        /\ valModel' = valModel
        /\ valModel'.Resources = valModel.Resources
        /\ valModel'.Childs = valModel.Childs
        /\ valModel'.Attachments = valModel.Attachments
        /\ valErrs' = ModelValidate(valModel')]_vars

\* a Model with a multi-properties group and assets in a child document was
\* validated and diagnostics were produced
C28_Witness ==
    /\ valOp.op = "Validate"
    /\ Len(valErrs) >= 2
    /\ AssetsOfKind(valModel, "MultiProperties") # {}
    /\ \E k \in DOMAIN valModel.Childs : valModel.Childs[k].Resources.Assets # <<>>
    /\ valModel.Attachments # <<>>

----------------------------------------------------------------------------
(* Claims on the lookups *)

\* whether a path names the root document of a Model
IsRootPath(m, path) ==
    path = "" \/ path = m.Path \/ (m.Path = "" /\ path = DefaultModelPath)

\* the first position of an entry with the ID, 0 when there is none
FirstWithID(s, id) ==
    IF \E i \in 1..Len(s) : s[i].ID = id
    THEN CHOOSE i \in 1..Len(s) : s[i].ID = id /\ \A k \in 1..(i - 1) : s[k].ID # id
    ELSE 0

\* what a lookup of an ID in a list of entries of the document named by the
\* path of the last call has to return
FirstEntryReturned(list(_)) ==
    LET m == valModel
        path == valOp.path
        i(rs) == FirstWithID(list(rs), valOp.id)
        first(rs) == IF i(rs) > 0
                     THEN found.ok /\ found.pos = i(rs) /\ found.value = list(rs)[i(rs)]
                     ELSE ~found.ok
    IN IF IsRootPath(m, path) THEN first(m.Resources)
       ELSE IF path \in DOMAIN m.Childs THEN first(m.Childs[path].Resources)
       ELSE ~found.ok

\* C18: FindResources returns the root's Resources exactly for the empty
\* path, the Model's path and, when the Model has no path, the default path;
\* for another path the Resources of the child under that key, or not-found.
\* FindAsset and FindObject return the first entry of that document with the
\* ID, and not-found when the document or the ID does not exist.
C18_PathScopedLookup ==
    /\ valOp.op = "FindResources" =>
          /\ IsRootPath(valModel, valOp.path) => found.ok /\ found.rs = valModel.Resources
          /\ ~IsRootPath(valModel, valOp.path) /\ valOp.path \in DOMAIN valModel.Childs =>
                found.ok /\ found.rs = valModel.Childs[valOp.path].Resources
          /\ ~IsRootPath(valModel, valOp.path) /\ valOp.path \notin DOMAIN valModel.Childs =>
                ~found.ok
    /\ valOp.op = "FindAsset" => FirstEntryReturned(LAMBDA rs : rs.Assets)
    /\ valOp.op = "FindObject" => FirstEntryReturned(LAMBDA rs : rs.Objects)

\* an object is looked up by the default path in a Model without a path whose
\* root document has two objects with the ID, and the first one is returned
C18_Witness ==
    /\ valOp = [op |-> "FindObject", path |-> DefaultModelPath, id |-> 1]
    /\ valModel.Path = ""
    /\ IDs(valModel.Resources.Objects) = <<1, 1>>
    /\ valModel.Resources.Objects[1] # valModel.Resources.Objects[2]
    /\ found.ok
    /\ found.value = valModel.Resources.Objects[1]

----------------------------------------------------------------------------
(* Claims on the mesh builder *)

\* C19: when every call so far was made with deduplication enabled, two calls
\* return the same index exactly when their points are equal, the vertex list
\* holds every point once, in the order the points were first added, and the
\* vertex at a returned index is the point passed; when every call was made
\* with deduplication disabled, the i-th call appends its point and returns
\* the new position i-1.
C19_AddVertex ==
    LET n == Len(vcalls)
        vs == mb.Vertices
    IN /\ (\A i \in 1..n : vcalls[i].connectivity) =>
            /\ \A i, j \in 1..n :
                  (vcalls[i].index = vcalls[j].index) <=> (vcalls[i].node = vcalls[j].node)
            /\ \A i \in 1..n : \E k \in 1..Len(vs) : vs[k] = vcalls[i].node
            /\ \A k, l \in 1..Len(vs) : vs[k] = vs[l] => k = l
            /\ \A k, l \in 1..Len(vs) :
                  k < l => \E i \in 1..n :
                      /\ vcalls[i].node = vs[k]
                      /\ \A j \in 1..i : vcalls[j].node # vs[l]
            /\ \A i \in 1..n :
                  /\ vcalls[i].index + 1 \in 1..Len(vs)
                  /\ vs[vcalls[i].index + 1] = vcalls[i].node
       /\ (\A i \in 1..n : ~vcalls[i].connectivity) =>
            /\ Len(vs) = n
            /\ \A i \in 1..n : vcalls[i].index = i - 1 /\ vs[i] = vcalls[i].node

\* with deduplication enabled, a point is added, then another, then the
\* first again: two vertices, and the first and third call return index 0
C19_Witness ==
    /\ Len(vcalls) = 3
    /\ \A i \in 1..3 : vcalls[i].connectivity
    /\ vcalls[1].node = vcalls[3].node
    /\ vcalls[1].node # vcalls[2].node
    /\ vcalls[3].index = 0
    /\ Len(mb.Vertices) = 2

----------------------------------------------------------------------------
(* Claims on Get *)

\* the first position of a bag whose element is not nil and has a type that
\* is the target's type or implements it, 0 when there is none
FirstAssignable(types, targetType) ==
    LET fits(i) == /\ types[i] # "nil"
                   /\ \/ types[i] = targetType
                      \/ targetType \in Interfaces /\ types[i] \in Implementers(targetType)
    IN IF \E i \in 1..Len(types) : fits(i)
       THEN CHOOSE i \in 1..Len(types) : fits(i) /\ \A k \in 1..(i - 1) : ~fits(k)
       ELSE 0

GetReturnsFirst(e, types) ==
    LET i == FirstAssignable(types, bagOp.target) IN
    /\ ~bagRes.panic
    /\ IF i > 0 THEN bagRes.ok /\ bagRes.value = e[i]
       ELSE ~bagRes.ok /\ bagRes.value = NoValue
    /\ e = bagOp.before

\* C20: Get with a target of a type returns true and sets the target to the
\* first element of the bag whose type is assignable to the target's type; it
\* returns false, and leaves the target, when no element is assignable, as for
\* an empty bag; the bag is as it was before the call.
C20_GetFirstAssignable ==
    /\ bagOp.op = "Extension.Get" /\ bagOp.target # "nil" =>
          GetReturnsFirst(bag, [i \in 1..Len(bag) |-> bag[i].kind])
    /\ bagOp.op = "AnyAttr.Get" /\ bagOp.target # "nil" =>
          GetReturnsFirst(attrBag, [i \in 1..Len(attrBag) |-> attrBag[i].type])

\* Get with an interface as target on a bag of two elements that implement
\* it: the first one is returned
C20_Witness ==
    /\ bagOp.op = "AnyAttr.Get"
    /\ bagOp.target = "MarshalerAttr"
    /\ Len(attrBag) = 2
    /\ attrBag[1] # attrBag[2]
    /\ attrBag[1] # NilEntry /\ attrBag[2] # NilEntry
    /\ bagRes.ok
    /\ bagRes.value = attrBag[1]

----------------------------------------------------------------------------
(* Claims on the modelFile index *)

\* C26: a lookup in the document that is decoded, through the map, returns
\* what a scan of the document's ordered list for the first resource with the
\* ID returns.
C26_MapAsScan ==
    (mfOp.op = "find" /\ (IF mfOp.path = "" THEN RootModelPath ELSE mfOp.path) = mfPath) =>
        mfOp.ret = ScanResources(mfResources, mfPath, mfOp.id, 1)

----------------------------------------------------------------------------
(* Claims on the slice attributes of an Object *)

\* the value of the last attribute of the name decoded so far, or none
RECURSIVE LastValueFrom(_, _, _)
LastValueFrom(attrs, name, i) ==
    IF i = 0 THEN "none"
    ELSE IF attrs[i].Name.Local = name THEN attrs[i].Value
    ELSE LastValueFrom(attrs, name, i - 1)
LastValue(name) == LastValueFrom(oaDecoded, name, Len(oaDecoded))

\* C27: the bag holds at most one slice entry, and one when a slice attribute
\* was decoded; the entry holds what the last slicestackid and the last
\* meshresolution decoded so far parse to (the zero value for one not yet
\* decoded); the entries that were in the bag before are where they were.
C27_OneSliceEntry ==
    LET slice == {i \in 1..Len(oAnyAttr) : oAnyAttr[i].type = "slices.ObjectAttr"}
        id == LastValue("slicestackid")
        res == LastValue("meshresolution")
    IN  /\ Cardinality(slice) <= 1
        /\ (id # "none" \/ res # "none") <=> slice # {}
        /\ \A i \in slice :
              /\ oAnyAttr[i].SliceStackID =
                    (IF id = "none" THEN "0" ELSE ParseUint(id).val)
              /\ oAnyAttr[i].MeshResolution =
                    (IF res = "none" THEN "ResolutionFull" ELSE newMeshResolution(res).res)
        /\ SubSeq(oAnyAttr, 1, Len(oBefore)) = oBefore
        /\ Len(oAnyAttr) = Len(oBefore) + Cardinality(slice)

\* both attributes were decoded, one of them twice, after entries of two other
\* extensions
C27_Witness ==
    /\ Len(oBefore) = 2
    /\ Len(oaDecoded) = 3
    /\ LastValue("slicestackid") \in {"2", "x"}
    /\ LastValue("meshresolution") = "lowres"
    /\ Len(oAnyAttr) = 3

----------------------------------------------------------------------------
(* Claims on the steps of stl Decode *)

\* C29: Decode returns, whatever the reader delivers: with fewer than
\* sizeOfHeader bytes before the end of the input, and with a reader that
\* fails with an error other than io.EOF before sizeOfHeader bytes.
C29_DecodeReturns == <>(stlPc = "returned")

----------------------------------------------------------------------------
(* Claims on strToSRGB *)

\* the value of a hexadecimal digit, -1 for another character
HexDigit(ch) ==
    CASE ch \in {"0", "1", "5", "6", "7", "9"} -> Ord(ch) - 48
      [] ch \in {"A", "B", "F"} -> Ord(ch) - 65 + 10
      [] ch \in {"a", "f"} -> Ord(ch) - 97 + 10
      [] OTHER -> -1
\* the value of the pair of digits after i characters
PairValue(s, i) == HexDigit(s[i + 1]) * 16 + HexDigit(s[i + 2])
\* '#' and then six or eight hexadecimal digits
IsColorText(s) ==
    /\ Len(s) \in {7, 9}
    /\ s[1] = "#"
    /\ \A i \in 2..Len(s) : HexDigit(s[i]) >= 0

\* C30: for '#' and six or eight hexadecimal digits strToSRGB returns no
\* error and the color of the values of the pairs of digits, with A = 255 for
\* six digits; for every other text it returns an error.
C30_ColorOfDigits ==
    colorRet.op = "strToSRGB" =>
        IF IsColorText(colorIn)
        THEN /\ colorRet.err = "nil"
             /\ colorRet.c = RGBA(PairValue(colorIn, 1), PairValue(colorIn, 3),
                                  PairValue(colorIn, 5),
                                  IF Len(colorIn) = 9 THEN PairValue(colorIn, 7) ELSE 255)
        ELSE colorRet.err # "nil"

====
